---- MODULE Spec2Model ----
(***************************************************************************)
(* Model of the two orchestration cores of services/geminiService.ts:      *)
(*   - runResearchPhase: source registry, bounded URL worker pool, query   *)
(*     batches, drain pass, recursive gap analysis;                        *)
(*   - runDraftingPhase: per-section draft / critique / revise loop run in *)
(*     concurrent batches.                                                 *)
(* One step of the model is one synchronous stretch of the JavaScript      *)
(* between two awaits.  Gateway replies are chosen nondeterministically.   *)
(***************************************************************************)
EXTENDS Naturals, Sequences, FiniteSets, TLC

\* ------------------------------------------------------------------------
\* Program constants
\* ------------------------------------------------------------------------
MAX_RESEARCH_DEPTH == 3
MAX_URL_CONCURRENCY == 5
batchSize == 3
MAX_REVISIONS == 2
BATCH_SIZE == 3
MAX_FACTS_PER_SOURCE == 10
MAX_EVIDENCE_SOURCES == 10

\* ------------------------------------------------------------------------
\* Bounds of the model
\* ------------------------------------------------------------------------
\* number of distinct URLs in the large caller list that exercises the pool
MaxPoolUrls == 6
\* number of section plans handed to runDraftingPhase
MaxSections == 4
\* number of citation blocks in the context handed to runDraftingPhase
MaxEvidenceBlocks == 11
\* upsertEvidence calls made in a row on one store
MaxUpserts == 3

\* ------------------------------------------------------------------------
\* Generic helpers
\* ------------------------------------------------------------------------
Min(a, b) == IF a < b THEN a ELSE b

Range(s) == {s[i] : i \in 1..Len(s)}

\* F applied to the value of x (x is evaluated once, before F is applied)
Strict(F(_), x) == CHOOSE r \in {F(v) : v \in {x}} : TRUE

\* Array.prototype.map and Array.prototype.filter
MapSeq(F(_), s) ==
    LET Map(v) == [i \in 1..Len(v) |-> F(v[i])]
    IN  Strict(Map, s)

FilterSeq(P(_), s) == SelectSeq(s, P)

Count(s, x) == Cardinality({i \in 1..Len(s) : s[i] = x})

\* ------------------------------------------------------------------------
\* Strings of the model.  A string with surrounding blanks is written with
\* the blanks; Trim removes them (String.prototype.trim).
\* ------------------------------------------------------------------------
PoolUrls == {"u" \o ToString(i) : i \in 1..MaxPoolUrls}
PoolUrlList == [i \in 1..MaxPoolUrls |-> "u" \o ToString(i)]

InvalidUrl == "google.com/search?q=x"

Trim(s) ==
    CASE s = " u1 " -> "u1"
      [] s = " s1 " -> "s1"
      [] s = " q1 " -> "q1"
      [] s = "  "   -> ""
      [] s = " summary B " -> "summary B"
      [] OTHER      -> s

isValidSourceUrl(url) == url # InvalidUrl

queryUrl(query) == "search.local/query?q=" \o query

citationDirectiveUrl == "directive.local/citation-format"

RECURSIVE JoinLines(_)
JoinLines(lines) ==
    IF lines = <<>> THEN ""
    ELSE IF Len(lines) = 1 THEN lines[1]
    ELSE lines[1] \o "\n" \o JoinLines(Tail(lines))

\* formatEvidenceContent: the summary line and one bullet per non-empty fact
formatEvidenceContent(summary, facts) ==
    LET NonEmpty(x) == x # ""
        Bullet(f) == "- " \o f
        summaryLine == IF Trim(summary) # "" THEN "SUMMARY: " \o Trim(summary) ELSE ""
    IN  Strict(JoinLines, FilterSeq(NonEmpty,
            <<summaryLine>> \o MapSeq(Bullet, FilterSeq(NonEmpty, MapSeq(Trim, facts)))))

\* buildCitationBlock: the block of a source; its content is fixed here
buildCitationBlock(url, kind, content) ==
    [id      |-> url,
     kind    |-> kind,
     content |-> IF Trim(content) # "" THEN Trim(content) ELSE "No extractable content."]

\* new Set([...existing, ...added]) as an array: first occurrences, in order
MergeFacts_Overwrite(existing, added) == added

RECURSIVE MergeFacts(_, _)
MergeFacts(existing, added) ==
    IF added = <<>> THEN existing
    ELSE LET Rest(merged) == MergeFacts(merged, Tail(added))
         IN  Strict(Rest, IF Head(added) \in Range(existing) THEN existing
                          ELSE Append(existing, Head(added)))

\* Array.prototype.slice(0, n)
Slice(s, n) == SubSeq(s, 1, Min(n, Len(s)))

Queries == {"q1", "q2", "q3"}
AllUrls == PoolUrls \cup {"u1", "u2", " u1 ", "s1", " s1 ", InvalidUrl}

\* ------------------------------------------------------------------------
\* State of runResearchPhase
\* ------------------------------------------------------------------------
VARIABLES
    urls,              \* caller-supplied URL list
    queries,           \* caller-supplied query list
    gapSupply,         \* replies the gap-analysis gateway may give in this run
    fetchSupply,       \* outcomes the extraction gateway may give in this run
    pc,                \* position of runResearchPhase / runLoop / harvest
    depth,             \* depth argument of the current runLoop call
    pass,              \* "main" or "drain": which harvest call of runLoop
    argUrls,           \* urlBatch of the current harvest call
    argQueries,        \* queryBatch of the current harvest call
    sourceRegistry,    \* Map url -> entry, as a sequence in insertion order
    gatheredSources,   \* Map url -> SourceReference, keys in insertion order
    failedUrls,        \* FailedSource[]
    contextParts,      \* citation blocks in emission order
    contextSourceIds,  \* Set of ids already emitted
    evidenceStore,     \* Map url -> EvidenceRecord, as a sequence in insertion order
    visitedQueries,    \* Set of executed query strings
    poolItems,         \* items of the running runWithConcurrency call
    nextIndex,         \* its shared index (1-based: next position to take)
    delaying,          \* items whose worker sleeps URL_REQUEST_DELAY_MS
    inflight,          \* items whose extraction call is awaited
    workers,           \* worker promises not yet finished
    filteredQueries,   \* queries of the current harvest call
    batchStart,        \* first position of the current query batch
    pendingVec,        \* positions whose executeSearchVector call is awaited
    batchResults,      \* position -> result of the current batch
    extractCalls,      \* url -> number of extraction gateway calls issued
    vectorCalls,       \* query -> number of executeSearchVector calls issued
    gapCalls,          \* number of reviewForGaps gateway calls issued
    loopRounds,        \* number of runLoop invocations
    gapOutcome,        \* how the last gap-analysis gateway call settled
    gapFresh,          \* queries of the last gap-analysis reply that were new work
    discovered,        \* URLs returned as sources by the merged search vectors
    fetchOutcome,      \* url -> how its last extraction call settled
    statusLog,         \* url -> the statuses written to its registry entry, in order
    upsertLog,         \* the upsertEvidence calls made directly on the store
    result             \* value returned by runResearchPhase, or NoResult

researchVars == <<urls, queries, gapSupply, fetchSupply, upsertLog, gapFresh, discovered,
                  fetchOutcome, statusLog, pc, depth, pass, argUrls, argQueries,
                  sourceRegistry, gatheredSources, failedUrls, contextParts,
                  contextSourceIds, evidenceStore, visitedQueries, poolItems,
                  nextIndex, delaying, inflight, workers, filteredQueries,
                  batchStart, pendingVec, batchResults, extractCalls,
                  vectorCalls, gapCalls, loopRounds, gapOutcome, result>>

NoResult == [context |-> <<>>, sources |-> <<>>, failedUrls |-> <<>>, returned |-> FALSE]

\* The mutable collections of one run, bundled so that the closures of
\* runResearchPhase can be written as functions from store to store.
Store == [reg      |-> sourceRegistry,
          gathered |-> gatheredSources,
          failed   |-> failedUrls,
          ctx      |-> contextParts,
          ctxIds   |-> contextSourceIds,
          evidence |-> evidenceStore,
          log      |-> statusLog]

SetStore(st) ==
    /\ sourceRegistry'   = st.reg
    /\ gatheredSources'  = st.gathered
    /\ failedUrls'       = st.failed
    /\ contextParts'     = st.ctx
    /\ contextSourceIds' = st.ctxIds
    /\ evidenceStore'    = st.evidence
    /\ statusLog'        = st.log

\* ---- sourceRegistry (Map) helpers
RegHas(reg, url) == \E i \in 1..Len(reg) : reg[i].url = url

RegStatus(reg, url) ==
    IF RegHas(reg, url)
    THEN reg[CHOOSE i \in 1..Len(reg) : reg[i].url = url].status
    ELSE "NONE"

RegPut(reg, url, status) ==
    IF RegHas(reg, url)
    THEN [i \in 1..Len(reg) |->
             IF reg[i].url = url THEN [url |-> url, status |-> status] ELSE reg[i]]
    ELSE Append(reg, [url |-> url, status |-> status])

StatusOf(url) == RegStatus(sourceRegistry, url)

\* ---- closures of runResearchPhase
ensureCitationDirective_Always(st) ==
    [st EXCEPT !.ctx = Append(@, buildCitationBlock(citationDirectiveUrl, "directive",
                                                    "CITATION FORMAT REQUIRED:")),
               !.ctxIds = @ \cup {citationDirectiveUrl}]

ensureCitationDirective(st) ==
    IF citationDirectiveUrl \in st.ctxIds THEN st
    ELSE [st EXCEPT !.ctx = Append(@, buildCitationBlock(citationDirectiveUrl, "directive",
                                                         "CITATION FORMAT REQUIRED:")),
                    !.ctxIds = @ \cup {citationDirectiveUrl}]

appendCitationBlock_NoDedup(st, url, content) ==
    IF url = "" THEN st
    ELSE LET d == ensureCitationDirective(st)
         IN  [d EXCEPT !.ctx = Append(@, buildCitationBlock(url, "source", content)),
                       !.ctxIds = @ \cup {url}]

\* an appendCitationBlock that rewrites the block of an id already emitted
appendCitationBlock_Rewrite(st, url, content) ==
    IF url = "" THEN st
    ELSE IF url \in st.ctxIds
    THEN [st EXCEPT !.ctx = [i \in 1..Len(st.ctx) |->
                                IF st.ctx[i].id = url
                                THEN buildCitationBlock(url, "source", content)
                                ELSE st.ctx[i]]]
    ELSE LET d == ensureCitationDirective(st)
         IN  [d EXCEPT !.ctx = Append(@, buildCitationBlock(url, "source", content)),
                       !.ctxIds = @ \cup {url}]

appendCitationBlock(st, url, content) ==
    IF url = "" \/ url \in st.ctxIds THEN st
    ELSE LET d == ensureCitationDirective(st)
         IN  [d EXCEPT !.ctx = Append(@, buildCitationBlock(url, "source", content)),
                       !.ctxIds = @ \cup {url}]

setRegistryStatus(st, url, status) ==
    [st EXCEPT !.reg = RegPut(@, url, status),
               !.log = [@ EXCEPT ![url] = Append(@, status)]]

EvidenceHas(ev, url) == \E i \in 1..Len(ev) : ev[i].url = url

EvidenceFacts(ev, url) ==
    IF EvidenceHas(ev, url)
    THEN ev[CHOOSE i \in 1..Len(ev) : ev[i].url = url].facts
    ELSE <<>>

upsertEvidence(st, url, facts) ==
    IF url = "" \/ ~isValidSourceUrl(url) THEN st
    ELSE LET record == [url   |-> url,
                        facts |-> Slice(MergeFacts(EvidenceFacts(st.evidence, url), facts),
                                        MAX_FACTS_PER_SOURCE)]
         IN  IF EvidenceHas(st.evidence, url)
             THEN [st EXCEPT !.evidence = [i \in 1..Len(@) |->
                                              IF @[i].url = url THEN record ELSE @[i]]]
             ELSE [st EXCEPT !.evidence = Append(@, record)]

upsertSource(st, url) ==
    IF url = "" \/ ~isValidSourceUrl(url) THEN st
    ELSE IF url \in Range(st.gathered) THEN st
    ELSE [st EXCEPT !.gathered = Append(@, url)]

registerDiscoveredSource(st, url) ==
    IF url = "" \/ ~isValidSourceUrl(url) THEN st
    ELSE LET Register(s1) ==
                 IF ~RegHas(s1.reg, url)
                 THEN [s1 EXCEPT !.reg = Append(@, [url |-> url, status |-> "QUEUED"]),
                                 !.log = [@ EXCEPT ![url] = Append(@, "QUEUED")]]
                 ELSE s1
         IN  Strict(Register, upsertSource(st, url))

markSourceCompleted_NoStatus(st, url) ==
    IF url = "" \/ ~isValidSourceUrl(url) THEN st
    ELSE upsertSource(st, url)

markSourceCompleted(st, url) ==
    IF url = "" \/ ~isValidSourceUrl(url) THEN st
    ELSE setRegistryStatus(upsertSource(st, url), url, "COMPLETED")

addFailedUrl_NoDedup(st, url, reason) ==
    IF url = "" THEN st
    ELSE [st EXCEPT !.failed = Append(@, [url |-> url, reason |-> reason])]

addFailedUrl(st, url, reason) ==
    IF url = "" THEN st
    ELSE IF \E i \in 1..Len(st.failed) : st.failed[i].url = url THEN st
    ELSE [st EXCEPT !.failed = Append(@, [url |-> url, reason |-> reason])]

getQueuedUrls(reg) ==
    LET IsQueued(e) == e.status = "QUEUED"
        UrlOf(e) == e.url
    IN  MapSeq(UrlOf, FilterSeq(IsQueued, reg))

\* number of worker promises runWithConcurrency creates
WorkerCount_Unbounded(limit, n) == n

WorkerCount(limit, n) == Min(limit, n)

\* urlsToProcess.add(url): a Set keeps one copy, in first-insertion order
AddUrlToProcess_List(items, url) == Append(items, url)

AddUrlToProcess(items, url) == IF url \in Range(items) THEN items ELSE Append(items, url)

\* the registry statuses for which harvest does not dispatch a URL again
SkipStatuses_ProcessingOnly == {"PROCESSING"}

SkipStatuses == {"PROCESSING", "COMPLETED", "FAILED"}

\* harvest, lines 1869-1886: trim, drop empties, classify each URL.
\* acc = [st |-> store, items |-> urlsToProcess]
RECURSIVE FilterUrls(_, _)
FilterUrls(acc, batch) ==
    IF batch = <<>> THEN acc
    ELSE LET url == Trim(Head(batch))
             Classify(a) ==
               IF url = "" THEN a
               ELSE IF ~isValidSourceUrl(url)
               THEN [a EXCEPT !.st = setRegistryStatus(
                        addFailedUrl(a.st, url, "Invalid or unsupported source URL"),
                        url, "FAILED")]
               ELSE IF RegStatus(a.st.reg, url) \in SkipStatuses THEN a
               ELSE [st    |-> IF RegHas(a.st.reg, url) THEN a.st
                               ELSE setRegistryStatus(a.st, url, "QUEUED"),
                     items |-> AddUrlToProcess(a.items, url)]
             Rest(a) == FilterUrls(a, Tail(batch))
         IN  Strict(Rest, Strict(Classify, acc))

\* data.facts of the reply to the extraction call for url
ExtractedFacts(url) == <<"fact of " \o url>>

\* the message of the error the worker's catch receives (lines 1894-1912)
ErrorMessage(outcome) ==
    CASE outcome = "empty" -> "Empty response"
      [] outcome = "quota" -> "QUOTA_EXCEEDED"
      [] OTHER             -> "gateway error"

\* line 1913: e.message || "Access Denied / Timeout"
FailureReason_Generic(message) == "Access Denied / Timeout"

FailureReason(message) == IF message # "" THEN message ELSE "Access Denied / Timeout"

\* the URL worker's handler after the gateway call has settled
\* (lines 1902-1917); outcome is what the await produced
HandleExtraction(st, url, outcome) ==
    IF outcome = "ok"
    THEN LET facts == ExtractedFacts(url)
             evidenceContent == formatEvidenceContent("Analysed source.", facts)
             Complete(s1) == markSourceCompleted(s1, url)
             Emit(s2) == appendCitationBlock(s2, url, evidenceContent)
         IN  Strict(Emit, Strict(Complete, upsertEvidence(st, url, facts)))
    ELSE LET reason == FailureReason(ErrorMessage(outcome))
         IN  setRegistryStatus(addFailedUrl(st, url, reason), url, "FAILED")

\* batchResults.forEach, lines 1932-1940, for the result of one query
RECURSIVE RegisterAll(_, _)
RegisterAll(st, sources) ==
    IF sources = <<>> THEN st
    ELSE LET Rest(s1) == RegisterAll(s1, Tail(sources))
         IN  Strict(Rest, registerDiscoveredSource(st, Head(sources)))

MergeResult_AlwaysEmit(st, query, res) ==
    LET Block(s1) == appendCitationBlock(s1, queryUrl(query), res.text)
        Register(s1) == RegisterAll(s1, res.sources)
    IN  Strict(Register, Strict(Block, upsertEvidence(st, queryUrl(query), res.facts)))

MergeResult(st, query, res) ==
    LET Emit(s0) ==
            IF res.text # ""
            THEN LET Block(s1) == appendCitationBlock(s1, queryUrl(query), res.text)
                 IN  Strict(Block, upsertEvidence(s0, queryUrl(query), res.facts))
            ELSE s0
        Register(s1) == RegisterAll(s1, res.sources)
    IN  Strict(Register, Strict(Emit, st))

\* ------------------------------------------------------------------------
\* State of runDraftingPhase
\* ------------------------------------------------------------------------
VARIABLES
    sectionCount,      \* number of section plans (structure.sections.length)
    draftSupply,       \* outcomes the draft gateway call may have in this run
    reviewSupply,      \* outcomes the critique gateway call may have in this run
    dpc,               \* position of runDraftingPhase's batch loop
    batchFirst,        \* first section of the current batch (1-based)
    secPc,             \* per section: position of its async function
    attempt,           \* per section: loop variable of the revision loop
    currentDraft,      \* per section: currentDraft.content
    lastReview,        \* per section: value of the last reviewDraft call
    draftCalls,        \* per section: draft gateway calls issued
    critiqueCalls,     \* per section: critique gateway calls issued
    rejections,        \* per section: critique replies with verdict Rejected
    sectionResult,     \* per section: content its promise resolved with
    results,           \* the results array of runDraftingPhase
    draftOutcome,      \* per section: how its last draft gateway call settled
    reviewOutcome,     \* per section: how its last critique gateway call settled
    finishedOutOfOrder,\* a section settled before an earlier one of its batch
    draftPrompt,       \* per section: the prompt of its last draft gateway call
    evidenceBlocks,    \* extractCitationBlocks(context): the evidence set
    sectionPlan,       \* the plan buildEvidencePack is called with
    evidence,          \* the value buildEvidencePack returned
    lengthGuide,       \* the value buildLengthGuide returned
    packPc,            \* position of the buildEvidencePack call
    apiKey,            \* whether process.env.API_KEY is set (getClient)
    gsPc,              \* position of the generateSafe invocation
    gsAttempt,         \* the attempt parameter of the current generateSafe frame
    serviceCalls,      \* ai.models.generateContent calls issued by the invocation
    backoffDelays,     \* the delays (ms) the invocation has waited, in order
    serviceErrors,     \* the messages of the errors the service threw, in order
    surfaced           \* what the invocation settled with

draftHistory == <<draftOutcome, reviewOutcome, finishedOutOfOrder>>

promptVars == <<draftPrompt>>

packVars == <<evidenceBlocks, sectionPlan, evidence, lengthGuide, packPc>>

gatewayVars == <<apiKey, gsPc, gsAttempt, serviceCalls, backoffDelays, serviceErrors,
                 surfaced>>

draftVars == <<sectionCount, draftSupply, reviewSupply, dpc, batchFirst, secPc,
               attempt, currentDraft, lastReview, draftCalls, critiqueCalls,
               rejections, sectionResult, results, draftHistory, promptVars, packVars,
               gatewayVars>>

\* ------------------------------------------------------------------------
\* Inputs and gateway replies of runResearchPhase
\* ------------------------------------------------------------------------
UrlInputs == {<<>>, <<"u1", "u1", "u2">>, <<" u1 ", InvalidUrl, InvalidUrl>>}

QueryInputs == {<<>>, <<"q1", "q1", "q2">>, <<" q1 ">>}

\* query lists a gap-analysis reply may carry
GapQueryLists == {<<>>, <<"q1">>, <<"q2", "q2">>, <<" q1 ", "q3">>, <<"  ">>}

\* what the URL extraction call may produce: a reply with text, a reply
\* without text, an exception other than QUOTA_EXCEEDED, QUOTA_EXCEEDED
FetchOutcomes == {"ok", "empty", "throw", "quota"}

\* what executeSearchVector may resolve to (it never rejects: line 1698);
\* text is formatEvidenceContent(summary, facts) (lines 1666, 1679)
VectorResult(summary, facts, sources) ==
    [text    |-> formatEvidenceContent(summary, facts),
     facts   |-> facts,
     sources |-> sources]

VectorResultA == VectorResult("summary A", <<"f1">>, <<"s1">>)

VectorResultB == VectorResult(" summary B ", <<"f2", "f1", "f3">>, <<"u1", InvalidUrl>>)

VectorResults ==
    { VectorResult("", <<>>, <<>>),
      VectorResultA,
      VectorResultB,
      VectorResult("", <<>>, <<" s1 ">>) }

\* what the gap-analysis call may produce: a reply with a query list, an
\* exception other than QUOTA_EXCEEDED, QUOTA_EXCEEDED, a reply that parses
\* to an object without a queries field
GapOutcomes(supply) ==
    { [kind |-> "queries", queries |-> q] : q \in supply }
    \cup { [kind |-> "throw", queries |-> <<>>],
           [kind |-> "quota", queries |-> <<>>],
           [kind |-> "malformed", queries |-> <<>>] }

\* reviewForGaps lines 1976-1980: the list it returns
GapQueries_ThrowAsks(out) ==
    IF out.kind = "queries" THEN out.queries ELSE <<"q3">>

GapQueries(out) == IF out.kind = "queries" THEN out.queries ELSE <<>>

\* a caller list in which a query comes back in the second batch
RepeatedQueryList == <<"q1", "q2", "q3", "q1">>

\* The runs: every caller URL list with every caller query list (the
\* extraction call returns an empty reply or throws QUOTA_EXCEEDED only in
\* the runs without caller queries), the long URL list that fills the
\* worker pool, and the caller query list with the repeated query.
Scenarios ==
    { [urls |-> u, queries |-> q, gaps |-> GapQueryLists,
       fetches |-> IF q = <<>> THEN FetchOutcomes ELSE {"ok", "throw"}] :
          u \in UrlInputs, q \in QueryInputs }
    \cup { [urls |-> PoolUrlList, queries |-> <<>>, gaps |-> {<<>>},
            fetches |-> {"ok"}],
           [urls |-> <<>>, queries |-> RepeatedQueryList, gaps |-> {<<>>},
            fetches |-> {"ok"}] }

NoVector == [text |-> "", facts |-> <<>>, sources |-> <<"pending">>]

\* the closure state of runResearchPhase at its entry (lines 1716-1741)
ResearchFresh ==
    /\ pc = "start"
    /\ depth = 0
    /\ pass = "main"
    /\ argUrls = <<>>
    /\ argQueries = <<>>
    /\ sourceRegistry = <<>>
    /\ gatheredSources = <<>>
    /\ failedUrls = <<>>
    /\ contextParts = <<>>
    /\ contextSourceIds = {}
    /\ evidenceStore = <<>>
    /\ visitedQueries = {}
    /\ poolItems = <<>>
    /\ nextIndex = 1
    /\ delaying = {}
    /\ inflight = {}
    /\ workers = 0
    /\ filteredQueries = <<>>
    /\ batchStart = 1
    /\ pendingVec = {}
    /\ batchResults = <<>>
    /\ extractCalls = [u \in AllUrls |-> 0]
    /\ vectorCalls = [q \in Queries |-> 0]
    /\ gapCalls = 0
    /\ loopRounds = 0
    /\ gapOutcome = "none"
    /\ gapFresh = {}
    /\ discovered = {}
    /\ fetchOutcome = [u \in AllUrls |-> "none"]
    /\ statusLog = [u \in AllUrls |-> <<>>]
    /\ upsertLog = <<>>
    /\ result = NoResult

ResearchInit ==
    /\ \E sc \in Scenarios :
          /\ urls = sc.urls
          /\ queries = sc.queries
          /\ gapSupply = sc.gaps
          /\ fetchSupply = sc.fetches
    /\ ResearchFresh

poolVars == <<poolItems, nextIndex, delaying, inflight, workers>>
queryVars == <<filteredQueries, batchStart, pendingVec, batchResults>>
storeVars == <<sourceRegistry, gatheredSources, failedUrls, contextParts,
               contextSourceIds, evidenceStore, statusLog>>
inputVars == <<urls, queries, gapSupply, fetchSupply, upsertLog>>
gapHistory == <<gapOutcome, gapFresh>>

\* runResearchPhase line 2007: await runLoop(urls, queries, 0)
StartRun ==
    /\ pc = "start"
    /\ pc' = "harvest"
    /\ depth' = 0
    /\ pass' = "main"
    /\ argUrls' = urls
    /\ argQueries' = queries
    /\ loopRounds' = 1
    /\ UNCHANGED <<draftVars, inputVars, gapHistory, discovered, fetchOutcome, storeVars, visitedQueries, poolVars, queryVars,
                   extractCalls, vectorCalls, gapCalls, result>>

\* harvest, lines 1868-1888 and the synchronous start of runWithConcurrency
\* (lines 1846-1856): the URLs are classified, min(limit, n) workers are
\* created, the first takes index 0 and calls the handler at once, the
\* others take the next indices and sleep.
HarvestUrls ==
    /\ pc = "harvest"
    /\ LET f     == FilterUrls([st |-> Store, items |-> <<>>], argUrls)
           items == f.items
           k     == WorkerCount(MAX_URL_CONCURRENCY, Len(items))
       IN  /\ poolItems' = items
           /\ workers' = k
           /\ nextIndex' = k + 1
           /\ IF k = 0
              THEN /\ SetStore(f.st)
                   /\ inflight' = {}
                   /\ delaying' = {}
                   /\ extractCalls' = extractCalls
              ELSE /\ SetStore(setRegistryStatus(f.st, items[1], "PROCESSING"))
                   /\ inflight' = {1}
                   /\ delaying' = 2..k
                   /\ extractCalls' = [extractCalls EXCEPT ![items[1]] = @ + 1]
    /\ pc' = "pool"
    /\ UNCHANGED <<draftVars, inputVars, gapHistory, discovered, fetchOutcome, depth, pass, argUrls, argQueries, visitedQueries,
                   queryVars, vectorCalls, gapCalls, loopRounds, result>>

\* a worker's delay has elapsed: handler(items[i]) runs up to its await
\* (lines 1889-1892)
WorkerStart(i) ==
    /\ pc = "pool"
    /\ i \in delaying
    /\ delaying' = delaying \ {i}
    /\ inflight' = inflight \cup {i}
    /\ SetStore(setRegistryStatus(Store, poolItems[i], "PROCESSING"))
    /\ extractCalls' = [extractCalls EXCEPT ![poolItems[i]] = @ + 1]
    /\ UNCHANGED <<draftVars, inputVars, gapHistory, discovered, fetchOutcome, pc, depth, pass, argUrls, argQueries, visitedQueries,
                   poolItems, nextIndex, workers, queryVars, vectorCalls,
                   gapCalls, loopRounds, result>>

\* the extraction call of items[i] settles (lines 1902-1917); the worker
\* then takes the next index or ends (lines 1850-1856)
WorkerFinish(i, outcome) ==
    /\ pc = "pool"
    /\ i \in inflight
    /\ SetStore(HandleExtraction(Store, poolItems[i], outcome))
    /\ fetchOutcome' = [fetchOutcome EXCEPT ![poolItems[i]] = outcome]
    /\ inflight' = inflight \ {i}
    /\ nextIndex' = nextIndex + 1
    /\ IF nextIndex <= Len(poolItems)
       THEN /\ delaying' = delaying \cup {nextIndex}
            /\ workers' = workers
       ELSE /\ delaying' = delaying
            /\ workers' = workers - 1
    /\ UNCHANGED <<draftVars, inputVars, gapHistory, discovered, pc, depth, pass, argUrls,
                   argQueries, visitedQueries,
                   poolItems, queryVars, extractCalls, vectorCalls, gapCalls,
                   loopRounds, result>>

\* await Promise.all(workers) resolves; harvest goes on with the queries,
\* lines 1920-1926: trim, drop empty and visited ones, mark the rest visited
HarvestQueries ==
    /\ pc = "pool"
    /\ workers = 0
    /\ LET Fresh(q) == q # "" /\ q \notin visitedQueries
           fq == FilterSeq(Fresh, MapSeq(Trim, argQueries))
       IN  /\ filteredQueries' = fq
           /\ visitedQueries' = visitedQueries \cup Range(fq)
           /\ pc' = IF Len(fq) > 0 THEN "batch" ELSE "harvested"
    /\ batchStart' = 1
    /\ pendingVec' = {}
    /\ batchResults' = <<>>
    /\ UNCHANGED <<draftVars, inputVars, gapHistory, discovered, fetchOutcome, depth, pass, argUrls, argQueries, storeVars, poolVars,
                   extractCalls, vectorCalls, gapCalls, loopRounds, result>>

BatchPositions_All == batchStart .. Len(filteredQueries)

BatchPositions == batchStart .. Min(batchStart + batchSize - 1, Len(filteredQueries))

\* lines 1929-1930: batch.map(q => executeSearchVectorAdapter(q, ...))
DispatchBatch ==
    /\ pc = "batch"
    /\ pendingVec' = BatchPositions
    /\ batchResults' = [p \in 1..Len(filteredQueries) |-> NoVector]
    /\ vectorCalls' = [q \in Queries |->
           vectorCalls[q] + Cardinality({p \in BatchPositions : filteredQueries[p] = q})]
    /\ pc' = "vectors"
    /\ UNCHANGED <<draftVars, inputVars, gapHistory, discovered, fetchOutcome, depth, pass, argUrls, argQueries, storeVars,
                   visitedQueries, poolVars, filteredQueries, batchStart,
                   extractCalls, gapCalls, loopRounds, result>>

\* one executeSearchVector promise of the batch resolves
VectorReturn(p, res) ==
    /\ pc = "vectors"
    /\ p \in pendingVec
    /\ pendingVec' = pendingVec \ {p}
    /\ batchResults' = [batchResults EXCEPT ![p] = res]
    /\ UNCHANGED <<draftVars, inputVars, gapHistory, discovered, fetchOutcome, pc, depth, pass, argUrls, argQueries, storeVars,
                   visitedQueries, poolVars, filteredQueries, batchStart,
                   extractCalls, vectorCalls, gapCalls, loopRounds, result>>

RECURSIVE MergeFrom(_, _, _)
MergeFrom(st, p, last) ==
    IF p > last THEN st
    ELSE LET Rest(s1) == MergeFrom(s1, p + 1, last)
         IN  Strict(Rest, MergeResult(st, filteredQueries[p], batchResults[p]))

\* Promise.all of the batch resolves: batchResults.forEach (lines 1932-1940),
\* then the next batch or the end of harvest
MergeBatch ==
    /\ pc = "vectors"
    /\ pendingVec = {}
    /\ LET last == Min(batchStart + batchSize - 1, Len(filteredQueries))
       IN  /\ SetStore(MergeFrom(Store, batchStart, last))
           /\ discovered' = discovered \cup
                  UNION {Range(batchResults[p].sources) : p \in batchStart..last}
           /\ pc' = IF batchStart + batchSize <= Len(filteredQueries)
                    THEN "batch" ELSE "harvested"
    /\ batchStart' = batchStart + batchSize
    /\ UNCHANGED <<draftVars, inputVars, gapHistory, fetchOutcome, depth, pass, argUrls,
                   argQueries, visitedQueries,
                   poolVars, filteredQueries, pendingVec, batchResults,
                   extractCalls, vectorCalls, gapCalls, loopRounds, result>>

\* the query list of the drain call, harvest(queuedUrls, []) (line 1987)
DrainQueries_Again == <<"q3">>

DrainQueries == <<>>

\* runLoop lines 1985-1988: after the first harvest, drain the QUEUED entries
Drain ==
    /\ pc = "harvested"
    /\ pass = "main"
    /\ getQueuedUrls(sourceRegistry) # <<>>
    /\ argUrls' = getQueuedUrls(sourceRegistry)
    /\ argQueries' = DrainQueries
    /\ pass' = "drain"
    /\ pc' = "harvest"
    /\ UNCHANGED <<draftVars, inputVars, gapHistory, discovered, fetchOutcome, depth, storeVars, visitedQueries, poolVars, queryVars,
                   extractCalls, vectorCalls, gapCalls, loopRounds, result>>

HarvestsDone ==
    /\ pc = "harvested"
    /\ (pass = "drain" \/ getQueuedUrls(sourceRegistry) = <<>>)

\* the depth at which runLoop returns without asking for gaps (line 1990)
DepthReached_Never(d) == FALSE

DepthReached(d) == d >= MAX_RESEARCH_DEPTH

\* runLoop line 1990: maximum depth reached, runLoop returns
StopAtDepth ==
    /\ HarvestsDone
    /\ DepthReached(depth)
    /\ pc' = "finish"
    /\ UNCHANGED <<draftVars, inputVars, gapHistory, discovered, fetchOutcome, depth, pass, argUrls, argQueries, storeVars,
                   visitedQueries, poolVars, queryVars, extractCalls, vectorCalls,
                   gapCalls, loopRounds, result>>

\* runLoop line 1993 and reviewForGaps up to its await (line 1968)
ReviewForGaps ==
    /\ HarvestsDone
    /\ ~DepthReached(depth)
    /\ gapCalls' = gapCalls + 1
    /\ pc' = "gap"
    /\ UNCHANGED <<draftVars, inputVars, gapHistory, discovered, fetchOutcome, depth, pass, argUrls, argQueries, storeVars,
                   visitedQueries, poolVars, queryVars, extractCalls, vectorCalls,
                   loopRounds, result>>

\* runLoop lines 1995-1996: a returned query is new work when it is not
\* empty after trimming and not in visitedQueries
IsNewQuery_Any(q, visited) == TRUE

IsNewQuery(q, visited) == q # "" /\ q \notin visited

\* the gap-analysis call settles: reviewForGaps lines 1976-1980, then
\* runLoop lines 1994-2004
GapReturn(out) ==
    /\ pc = "gap"
    /\ gapOutcome' = out.kind
    /\ gapFresh' = {Trim(q) : q \in Range(out.queries)} \ ({""} \cup visitedQueries)
    /\ LET Fresh(q) == IsNewQuery(q, visitedQueries)
           newQueries == GapQueries(out)
           filteredNewQueries == FilterSeq(Fresh, MapSeq(Trim, newQueries))
       IN  IF out.kind = "malformed"
           THEN \* reply without a queries field: newQueries.map throws
                /\ pc' = "rejected"
                /\ UNCHANGED <<depth, pass, argUrls, argQueries, loopRounds>>
           ELSE IF filteredNewQueries = <<>>
           THEN /\ pc' = "finish"
                /\ UNCHANGED <<depth, pass, argUrls, argQueries, loopRounds>>
           ELSE /\ pc' = "harvest"
                /\ depth' = depth + 1
                /\ pass' = "main"
                /\ argUrls' = <<>>
                /\ argQueries' = filteredNewQueries
                /\ loopRounds' = loopRounds + 1
    /\ UNCHANGED <<draftVars, inputVars, discovered, fetchOutcome, storeVars, visitedQueries,
                   poolVars, queryVars, extractCalls, vectorCalls, gapCalls, result>>

\* runResearchPhase lines 2009-2013
ReturnResult ==
    /\ pc = "finish"
    /\ result' = [context |-> contextParts, sources |-> gatheredSources,
                  failedUrls |-> failedUrls, returned |-> TRUE]
    /\ pc' = "returned"
    /\ UNCHANGED <<draftVars, inputVars, gapHistory, discovered, fetchOutcome, depth, pass, argUrls, argQueries, storeVars,
                   visitedQueries, poolVars, queryVars, extractCalls, vectorCalls,
                   gapCalls, loopRounds>>

ResearchNext ==
    \/ StartRun
    \/ HarvestUrls
    \/ \E i \in 1..Len(poolItems) : WorkerStart(i)
    \/ \E i \in 1..Len(poolItems), o \in fetchSupply : WorkerFinish(i, o)
    \/ HarvestQueries
    \/ DispatchBatch
    \/ \E p \in pendingVec, r \in VectorResults : VectorReturn(p, r)
    \/ MergeBatch
    \/ Drain
    \/ StopAtDepth
    \/ ReviewForGaps
    \/ \E out \in GapOutcomes(gapSupply) : GapReturn(out)
    \/ ReturnResult

vars == <<researchVars, draftVars>>

\* ------------------------------------------------------------------------
\* runDraftingPhase
\* ------------------------------------------------------------------------
Sections == 1..MaxSections

DraftingError == "Drafting Error: content generation failed."

DataInsufficient == "Data insufficient."

NoContent == "<none>"

\* what a draft gateway call may produce:
\*   ok         a reply that parses and has non-empty content
\*   empty      a reply that parses and whose content is missing or empty
\*   unparsable a reply safeParseJSON cannot parse (fallback value is used)
\*   throw      an exception other than QUOTA_EXCEEDED
\*   quota      the QUOTA_EXCEEDED exception
DraftOutcomes == {"ok", "empty", "unparsable", "throw", "quota"}

\* what a critique gateway call may produce:
\*   Approved      {verdict: "Approved", feedback: ...}
\*   Rejected      {verdict: "Rejected", feedback: "fix the claims"}
\*   RejectedBlank {verdict: "Rejected", feedback: ""}
\*   noVerdict     a reply that parses to an object without a verdict
\*   unparsable, throw, quota: as for the draft call
ReviewOutcomes ==
    {"Approved", "Rejected", "RejectedBlank", "noVerdict", "unparsable", "throw", "quota"}

DraftScenarios ==
    { [n |-> n, drafts |-> DraftOutcomes, reviews |-> ReviewOutcomes] : n \in 0..2 }
    \cup { [n |-> MaxSections, drafts |-> {"ok", "throw", "quota"},
            reviews |-> {"Approved", "Rejected", "throw"}] }

\* generateSectionDraft lines 2198-2202: content of the payload built from
\* the reply of the n-th draft call of a section
DraftContent(outcome, n) ==
    CASE outcome = "ok"         -> "draft" \o ToString(n)
      [] outcome = "empty"      -> ""
      [] outcome = "unparsable" -> DataInsufficient

\* reviewDraft with a catch that lets the loop go on to a revision
ReviewValue_ThrowRejects(outcome) ==
    CASE outcome = "throw"      -> "Rejected"
      [] outcome = "RejectedBlank" -> "Rejected"
      [] outcome = "quota"      -> "null"
      [] outcome = "unparsable" -> "Approved"
      [] OTHER                  -> outcome

\* reviewDraft lines 2213-2227: the value it returns
ReviewValue(outcome) ==
    CASE outcome \in {"throw", "quota"} -> "null"
      [] outcome = "unparsable"         -> "Approved"
      [] outcome = "RejectedBlank"      -> "Rejected"
      [] OTHER                          -> outcome

\* review.feedback of the value reviewDraft returns ("" when it is empty
\* or missing)
ReviewFeedback(outcome) ==
    CASE outcome = "Rejected"   -> "fix the claims"
      [] outcome = "Approved"   -> "OK"
      [] outcome = "unparsable" -> "OK"
      [] OTHER                  -> ""

\* normaliseDraftContent (lines 2095-2098): a string is returned as it is;
\* the draft replies of the model carry string content
normaliseDraftContent(content) == content

\* buildDraftPrompt (lines 2146-2171): the base prompt of the section and,
\* when both draft and feedback are given and non-empty, the revision task
buildDraftPrompt(plan, draft, feedback) ==
    IF draft # "" /\ feedback # ""
    THEN [section |-> plan.title, revision |-> TRUE, draft |-> draft, feedback |-> feedback]
    ELSE [section |-> plan.title, revision |-> FALSE, draft |-> "", feedback |-> ""]

NoPrompt == [section |-> "", revision |-> FALSE, draft |-> "", feedback |-> ""]

\* line 2269: the content a section resolves with after a non-quota error
CatchContent_KeepDraft(current) == current

CatchContent(current) == DraftingError

\* lines 2240 and 2251: currentDraft is replaced by the payload of the
\* draft call that has just returned
NextDraft_KeepFirst(current, payload) == IF current = NoContent THEN payload ELSE current

NextDraft(current, payload) == payload

\* line 2243: the review values on which the loop breaks at once
StopsLoop_OnlyNull(review) == review = "null"

StopsLoop(review) == review \in {"null", "Approved"}

\* the revision loop condition `attempt === MAX_REVISIONS` (line 2250)
LastAttempt_OneMore(a) == a = MAX_REVISIONS + 1

LastAttempt(a) == a = MAX_REVISIONS

\* structure.sections.slice(i, i + BATCH_SIZE) (line 2233)
BatchOf_All(first) == first .. sectionCount

BatchOf(first) == first .. Min(first + BATCH_SIZE - 1, sectionCount)

\* structure.sections[i - 1]: the plans differ in title and alternate in type
SectionPlan(i) == [title |-> "section" \o ToString(i),
                   type  |-> IF i % 2 = 1 THEN "text" ELSE "list"]

\* the catch of a section's async function rethrows this error only
\* (line 2267)
IsQuotaError_Never(outcome) == FALSE

IsQuotaError(outcome) == outcome = "quota"

\* section s settles while an earlier section of its batch is still running
SettlesBeforeEarlier(s) ==
    \E t \in BatchOf(batchFirst) : t < s /\ secPc[t] \in {"draft", "review"}

\* Promise.all (line 2273): the k-th value belongs to the k-th promise of
\* the batch, that is to section first + k - 1, whenever it settled
ResultSlot_LastFirst(first, k, last) == last - k + 1

ResultSlot(first, k, last) == first + k - 1

DraftFresh ==
    /\ dpc = "start"
    /\ batchFirst = 1
    /\ secPc = [s \in Sections |-> "idle"]
    /\ attempt = [s \in Sections |-> 0]
    /\ currentDraft = [s \in Sections |-> NoContent]
    /\ lastReview = [s \in Sections |-> "none"]
    /\ draftCalls = [s \in Sections |-> 0]
    /\ critiqueCalls = [s \in Sections |-> 0]
    /\ rejections = [s \in Sections |-> 0]
    /\ sectionResult = [s \in Sections |-> NoContent]
    /\ results = <<>>
    /\ draftOutcome = [s \in Sections |-> "none"]
    /\ reviewOutcome = [s \in Sections |-> "none"]
    /\ finishedOutOfOrder = FALSE
    /\ draftPrompt = [s \in Sections |-> NoPrompt]

\* no buildEvidencePack call is modelled in this run
NoPlan == [title |-> <<>>, guidance |-> <<>>, type |-> "text"]

NoGuide == [low |-> 0, high |-> 0, unit |-> "none"]

NoPack == [blocks |-> <<>>, count |-> 0]

PackIdle ==
    /\ evidenceBlocks = <<>>
    /\ sectionPlan = NoPlan
    /\ evidence = NoPack
    /\ lengthGuide = NoGuide
    /\ packPc = "idle"

\* no generateSafe invocation is modelled on its own in this run
GatewayIdle ==
    /\ apiKey = TRUE
    /\ gsPc = "idle"
    /\ gsAttempt = 0
    /\ serviceCalls = 0
    /\ backoffDelays = <<>>
    /\ serviceErrors = <<>>
    /\ surfaced = "none"

DraftInit ==
    /\ \E sc \in DraftScenarios :
          /\ sectionCount = sc.n
          /\ draftSupply = sc.drafts
          /\ reviewSupply = sc.reviews
    /\ DraftFresh
    /\ PackIdle
    /\ GatewayIdle

\* the batch loop starts a batch (lines 2232-2240): batch.map runs every
\* section's async function up to its first await, the first draft call
StartBatch ==
    /\ dpc \in {"start", "pause"}
    /\ batchFirst <= sectionCount
    /\ secPc' = [s \in Sections |-> IF s \in BatchOf(batchFirst) THEN "draft" ELSE secPc[s]]
    /\ draftCalls' = [s \in Sections |->
                        IF s \in BatchOf(batchFirst) THEN draftCalls[s] + 1 ELSE draftCalls[s]]
    /\ draftPrompt' = [s \in Sections |->
                         IF s \in BatchOf(batchFirst)
                         THEN buildDraftPrompt(SectionPlan(s), "", "")
                         ELSE draftPrompt[s]]
    /\ dpc' = "batch"
    /\ UNCHANGED <<researchVars, packVars, gatewayVars, sectionCount, draftSupply, reviewSupply, batchFirst,
                   attempt, currentDraft, lastReview, critiqueCalls, rejections,
                   sectionResult, results, draftHistory>>

\* structure.sections is empty: the loop body never runs (line 2232, 2281)
ReturnEmpty ==
    /\ dpc = "start"
    /\ batchFirst > sectionCount
    /\ dpc' = "returned"
    /\ UNCHANGED <<researchVars, packVars, gatewayVars, sectionCount, draftSupply, reviewSupply, batchFirst,
                   secPc, attempt, currentDraft, lastReview, draftCalls,
                   critiqueCalls, rejections, sectionResult, results, draftHistory,
                   promptVars>>

\* a draft call of section s settles (lines 2240 / 2251, catch 2266-2270).
\* After a payload the loop goes on to reviewDraft (line 2242).
DraftReturn(s, outcome) ==
    /\ secPc[s] = "draft"
    /\ draftOutcome' = [draftOutcome EXCEPT ![s] = outcome]
    /\ IF outcome \in {"throw", "quota"}
       THEN IF IsQuotaError(outcome)
            THEN \* rethrown: the section's promise rejects, Promise.all rejects
                 /\ secPc' = [secPc EXCEPT ![s] = "thrown"]
                 /\ dpc' = IF dpc = "batch" THEN "rejected" ELSE dpc
                 /\ UNCHANGED <<attempt, currentDraft, critiqueCalls, sectionResult,
                                finishedOutOfOrder>>
            ELSE /\ secPc' = [secPc EXCEPT ![s] = "done"]
                 /\ sectionResult' = [sectionResult EXCEPT ![s] = CatchContent(currentDraft[s])]
                 /\ finishedOutOfOrder' = (finishedOutOfOrder \/ SettlesBeforeEarlier(s))
                 /\ UNCHANGED <<dpc, attempt, currentDraft, critiqueCalls>>
       ELSE /\ currentDraft' = [currentDraft EXCEPT
                                 ![s] = NextDraft(@, DraftContent(outcome, draftCalls[s]))]
            /\ attempt' = [attempt EXCEPT ![s] = IF draftCalls[s] = 1 THEN 0 ELSE @ + 1]
            /\ critiqueCalls' = [critiqueCalls EXCEPT ![s] = @ + 1]
            /\ secPc' = [secPc EXCEPT ![s] = "review"]
            /\ UNCHANGED <<dpc, sectionResult, finishedOutOfOrder>>
    /\ UNCHANGED <<researchVars, packVars, gatewayVars, sectionCount, draftSupply, reviewSupply, batchFirst,
                   lastReview, draftCalls, rejections, results, reviewOutcome, promptVars>>

\* a critique call of section s settles (reviewDraft lines 2213-2227, loop
\* lines 2243-2257, result lines 2260-2264)
ReviewReturn(s, outcome) ==
    /\ secPc[s] = "review"
    /\ reviewOutcome' = [reviewOutcome EXCEPT ![s] = outcome]
    /\ LET review == ReviewValue(outcome)
       IN  /\ lastReview' = [lastReview EXCEPT ![s] = review]
           /\ rejections' = [rejections EXCEPT ![s] = IF review = "Rejected" THEN @ + 1 ELSE @]
           /\ IF StopsLoop(review) \/ LastAttempt(attempt[s])
              THEN /\ secPc' = [secPc EXCEPT ![s] = "done"]
                   /\ sectionResult' = [sectionResult EXCEPT ![s] = currentDraft[s]]
                   /\ finishedOutOfOrder' = (finishedOutOfOrder \/ SettlesBeforeEarlier(s))
                   /\ UNCHANGED <<draftCalls, draftPrompt>>
              ELSE /\ secPc' = [secPc EXCEPT ![s] = "draft"]
                   /\ draftCalls' = [draftCalls EXCEPT ![s] = @ + 1]
                   /\ draftPrompt' = [draftPrompt EXCEPT ![s] =
                          buildDraftPrompt(SectionPlan(s),
                                           normaliseDraftContent(currentDraft[s]),
                                           ReviewFeedback(outcome))]
                   /\ UNCHANGED <<sectionResult, finishedOutOfOrder>>
    /\ UNCHANGED <<researchVars, packVars, gatewayVars, sectionCount, draftSupply, reviewSupply, dpc,
                   batchFirst, attempt, currentDraft, critiqueCalls, results,
                   draftOutcome>>

\* Promise.all of the batch resolves (lines 2273-2279, 2281): the results
\* are pushed in plan order; then the pause before the next batch, or return
BatchJoin ==
    /\ dpc = "batch"
    /\ \A s \in BatchOf(batchFirst) : secPc[s] = "done"
    /\ LET last == Min(batchFirst + BATCH_SIZE - 1, sectionCount)
       IN  results' = results \o
               [k \in 1..(last - batchFirst + 1) |->
                   LET j == ResultSlot(batchFirst, k, last)
                   IN  [title   |-> SectionPlan(j).title,
                        type    |-> SectionPlan(j).type,
                        content |-> sectionResult[j]]]
    /\ batchFirst' = batchFirst + BATCH_SIZE
    /\ dpc' = IF batchFirst + BATCH_SIZE <= sectionCount THEN "pause" ELSE "returned"
    /\ UNCHANGED <<researchVars, packVars, gatewayVars, sectionCount, draftSupply, reviewSupply, secPc,
                   attempt, currentDraft, lastReview, draftCalls, critiqueCalls,
                   rejections, sectionResult, draftHistory, promptVars>>

DraftNext ==
    \/ StartBatch
    \/ ReturnEmpty
    \/ \E s \in Sections, o \in draftSupply : DraftReturn(s, o)
    \/ \E s \in Sections, o \in reviewSupply : ReviewReturn(s, o)
    \/ BatchJoin

\* ------------------------------------------------------------------------
\* runDraftingPhase: the evidence pack of a section
\* ------------------------------------------------------------------------
\* String.prototype.toLowerCase on the words of the model
ToLower(w) ==
    CASE w = "Risk"     -> "risk"
      [] w = "Timeline" -> "timeline"
      [] w = "Database" -> "database"
      [] OTHER          -> w

\* String.prototype.includes between two lower-case words of the model
SubstringOf(w, token) == w = token \/ <<w, token>> \in {<<"data", "database">>}

\* getKeywords (lines 2100-2105); a text is given as the list of its
\* maximal alphanumeric runs, which is what the split produces
getKeywords(text) ==
    LET Long(w) == Len(w) > 3
    IN  FilterSeq(Long, MapSeq(ToLower, text))

\* `${block.title} ${block.content}`.toLowerCase() (line 2111)
Haystack(block) == MapSeq(ToLower, block.title \o block.content)

PlanKeywords(plan) == Range(getKeywords(plan.title)) \cup Range(getKeywords(plan.guidance))

\* the score selectEvidenceBlocks gives a block (lines 2111-2115)
Score(block, keywords) ==
    Cardinality({w \in keywords : \E token \in Range(Haystack(block)) : SubstringOf(w, token)})

\* scored.sort((a, b) => b.score - a.score): descending, stable
InsertByScore_Unstable(sorted, item) ==
    LET before == Cardinality({i \in 1..Len(sorted) : sorted[i].score > item.score})
    IN  SubSeq(sorted, 1, before) \o <<item>> \o SubSeq(sorted, before + 1, Len(sorted))

InsertByScore(sorted, item) ==
    LET before == Cardinality({i \in 1..Len(sorted) : sorted[i].score >= item.score})
    IN  SubSeq(sorted, 1, before) \o <<item>> \o SubSeq(sorted, before + 1, Len(sorted))

RECURSIVE SortByScore(_, _)
SortByScore(sorted, scored) ==
    IF scored = <<>> THEN sorted
    ELSE LET Rest(acc) == SortByScore(acc, Tail(scored))
         IN  Strict(Rest, InsertByScore(sorted, Head(scored)))

\* line 2120: what is taken when no block scored above zero
FallbackBlocks_None(selected, sorted) == selected

FallbackBlocks(selected, sorted) == IF Len(selected) > 0 THEN selected ELSE sorted

\* selectEvidenceBlocks (lines 2107-2122)
selectEvidenceBlocks(blocks, plan) ==
    IF Len(blocks) = 0 THEN <<>>
    ELSE LET keywords == PlanKeywords(plan)
             Scored(b) == [block |-> b, score |-> Score(b, keywords)]
             Positive(item) == item.score > 0
             BlockOf(item) == item.block
             Select(sorted) ==
                 Slice(FallbackBlocks(MapSeq(BlockOf, FilterSeq(Positive, sorted)),
                                      MapSeq(BlockOf, sorted)),
                       MAX_EVIDENCE_SOURCES)
         IN  Strict(Select, SortByScore(<<>>, MapSeq(Scored, blocks)))

\* buildEvidencePack (lines 2133-2144): the blocks the pack is made of, in
\* manifest order, and their number
buildEvidencePack(blocks, plan) ==
    LET Pack(selected) == [blocks |-> selected, count |-> Len(selected)]
    IN  Strict(Pack, selectEvidenceBlocks(blocks, plan))

\* how the words of the blocks relate to the plans below
BlockPatterns == {"none", "alternate", "last", "all", "mixed"}

BlockWords(pattern, i, n) ==
    CASE pattern = "all"                     -> <<"Risk", "report">>
      [] pattern = "alternate" /\ i % 2 = 0 -> <<"Database", "of", "actors">>
      [] pattern = "last" /\ i = n          -> <<"risk", "database">>
      [] pattern = "mixed" /\ i % 3 = 0     -> <<"risk", "database">>
      [] pattern = "mixed" /\ i % 3 = 1     -> <<"Risk", "report">>
      [] OTHER                               -> <<"misc", "note">>

EvidenceBlocksOf(pattern, n) ==
    [i \in 1..n |-> [url     |-> "b" \o ToString(i),
                     title   |-> <<"source", ToString(i)>>,
                     content |-> BlockWords(pattern, i, n)]]

\* a plan with matching keywords, one whose words are all too short to be
\* keywords, one whose keywords occur in no block; each as a text section
\* and as a list section
SectionPlans ==
    { [title |-> t.title, guidance |-> t.guidance, type |-> ty] :
        t \in { [title |-> <<"Risk", "map">>, guidance |-> <<"data", "on", "actors">>],
                [title |-> <<"Now">>,         guidance |-> <<"top", "ten">>],
                [title |-> <<"Timeline">>,    guidance |-> <<"key", "dates">>] },
        ty \in {"text", "list"} }

Max(a, b) == IF a > b THEN a ELSE b

\* Math.ceil on the integer sourceCount * 2
Ceil(n) == n

\* buildLengthGuide (lines 2124-2131): the range the prompt asks for
buildLengthGuide_Unbounded(sourceCount, sectionType) ==
    IF sectionType = "list"
    THEN [low |-> Max(6, sourceCount * 3), high |-> Max(6, sourceCount * 3) + 2,
          unit |-> "bullets"]
    ELSE [low |-> Max(3, Ceil(sourceCount * 2)), high |-> Max(3, Ceil(sourceCount * 2)) + 1,
          unit |-> "paragraphs"]

buildLengthGuide(sourceCount, sectionType) ==
    LET paragraphTarget == Min(10, Max(3, Ceil(sourceCount * 2)))
        listTarget == Min(18, Max(6, sourceCount * 3))
    IN  IF sectionType = "list"
        THEN [low |-> listTarget, high |-> listTarget + 2, unit |-> "bullets"]
        ELSE [low |-> paragraphTarget, high |-> paragraphTarget + 1, unit |-> "paragraphs"]

PackInit ==
    /\ \E n \in 0..MaxEvidenceBlocks, pattern \in BlockPatterns :
          evidenceBlocks = EvidenceBlocksOf(pattern, n)
    /\ sectionPlan \in SectionPlans
    /\ evidence = NoPack
    /\ lengthGuide = NoGuide
    /\ packPc = "start"

\* lines 2237-2239: const evidence = buildEvidencePack(sectionPlan);
\* const lengthGuide = buildLengthGuide(evidence.count, sectionPlan.type)
BuildPack ==
    /\ packPc = "start"
    /\ evidence' = buildEvidencePack(evidenceBlocks, sectionPlan)
    /\ lengthGuide' = buildLengthGuide(buildEvidencePack(evidenceBlocks, sectionPlan).count,
                                       sectionPlan.type)
    /\ packPc' = "done"
    /\ UNCHANGED <<researchVars, evidenceBlocks, sectionPlan, sectionCount, draftSupply,
                   reviewSupply, dpc, batchFirst, secPc, attempt, currentDraft,
                   lastReview, draftCalls, critiqueCalls, rejections, sectionResult,
                   results, draftHistory, promptVars, gatewayVars>>

PackNext == BuildPack

\* ------------------------------------------------------------------------
\* generateSafe (lines 1336-1369): one gateway invocation
\* ------------------------------------------------------------------------
\* An error of the service is modelled by the markers its lower-cased
\* e.toString() contains; generateSafe inspects nothing else of it.
RateLimitMarkers == {"429", "quota", "resource_exhausted"}

HardLimitMarkers == {"limit: 0", "not found", "404"}

ErrorMessages ==
    { {"429"}, {"quota"}, {"resource_exhausted"},
      {"429", "limit: 0"}, {"quota", "not found"}, {"resource_exhausted", "404"},
      {"404"}, {"not found"}, {"limit: 0"}, {} }

\* line 1347: msg.includes("429") || msg.includes("quota") || ...
isRateLimit(msg) == msg \cap RateLimitMarkers # {}

\* line 1357: msg.includes("limit: 0") || msg.includes("not found") || ...
IsHardLimit(msg) == msg \cap HardLimitMarkers # {}

\* line 1350: if (attempt > 3)
RetriesExhausted_Late(n) == n > 4

RetriesExhausted(n) == n > 3

\* line 1362: Math.pow(2, attempt) * 1000
BackoffDelay(n) == (2 ^ n) * 1000

GatewayInit ==
    /\ apiKey \in BOOLEAN
    /\ gsPc = "enter"
    /\ gsAttempt = 1
    /\ serviceCalls = 0
    /\ backoffDelays = <<>>
    /\ serviceErrors = <<>>
    /\ surfaced = "none"

gatewayRest == <<researchVars, sectionCount, draftSupply, reviewSupply, dpc, batchFirst,
                 secPc, attempt, currentDraft, lastReview, draftCalls, critiqueCalls,
                 rejections, sectionResult, results, draftHistory, promptVars, packVars>>

\* lines 1337-1344: getClient() outside the try throws without an API key;
\* otherwise the frame issues ai.models.generateContent(params)
EnterFrame ==
    /\ gsPc = "enter"
    /\ IF apiKey
       THEN /\ gsPc' = "call"
            /\ serviceCalls' = serviceCalls + 1
            /\ UNCHANGED surfaced
       ELSE /\ gsPc' = "thrown"
            /\ surfaced' = "error"
            /\ UNCHANGED serviceCalls
    /\ UNCHANGED <<gatewayRest, apiKey, gsAttempt, backoffDelays, serviceErrors>>

\* line 1344: the service call resolves and its value is returned
ServiceReturns ==
    /\ gsPc = "call"
    /\ gsPc' = "returned"
    /\ surfaced' = "response"
    /\ UNCHANGED <<gatewayRest, apiKey, gsAttempt, serviceCalls, backoffDelays, serviceErrors>>

\* lines 1345-1367: the service call throws; the catch either throws
\* QUOTA_EXCEEDED, rethrows e, or starts the backoff timer
ServiceThrows(msg) ==
    /\ gsPc = "call"
    /\ serviceErrors' = Append(serviceErrors, msg)
    /\ IF isRateLimit(msg)
       THEN IF RetriesExhausted(gsAttempt) \/ IsHardLimit(msg)
            THEN /\ gsPc' = "thrown"
                 /\ surfaced' = "QUOTA_EXCEEDED"
                 /\ UNCHANGED backoffDelays
            ELSE /\ gsPc' = "backoff"
                 /\ backoffDelays' = Append(backoffDelays, BackoffDelay(gsAttempt))
                 /\ UNCHANGED surfaced
       ELSE /\ gsPc' = "thrown"
            /\ surfaced' = "error"
            /\ UNCHANGED backoffDelays
    /\ UNCHANGED <<gatewayRest, apiKey, gsAttempt, serviceCalls>>

\* lines 1364-1365: the timer fires; return generateSafe(params, attempt + 1)
BackoffElapses ==
    /\ gsPc = "backoff"
    /\ gsAttempt' = gsAttempt + 1
    /\ gsPc' = "enter"
    /\ UNCHANGED <<gatewayRest, apiKey, serviceCalls, backoffDelays, serviceErrors, surfaced>>

GatewayNext ==
    \/ EnterFrame
    \/ ServiceReturns
    \/ \E msg \in ErrorMessages : ServiceThrows(msg)
    \/ BackoffElapses

\* ------------------------------------------------------------------------
\* Specifications
\* ------------------------------------------------------------------------
DraftIdle ==
    /\ sectionCount = 0
    /\ draftSupply = {}
    /\ reviewSupply = {}
    /\ DraftFresh
    /\ PackIdle
    /\ GatewayIdle

ResearchIdle ==
    /\ urls = <<>>
    /\ queries = <<>>
    /\ gapSupply = {}
    /\ fetchSupply = {}
    /\ ResearchFresh

\* one run of runResearchPhase
Init == ResearchInit /\ DraftIdle

Spec == Init /\ [][ResearchNext]_vars

\* runs of runResearchPhase on the inputs that drive the recursion, with
\* every enabled step eventually taken: timers fire and every gateway call
\* eventually returns or throws
FairInit ==
    /\ urls \in UrlInputs
    /\ queries \in {<<>>, <<"q1", "q1", "q2">>}
    /\ gapSupply = GapQueryLists
    /\ fetchSupply = {"ok", "throw"}
    /\ ResearchFresh

FairRunInit == FairInit /\ DraftIdle

FairSpec == FairRunInit /\ [][ResearchNext]_vars /\ WF_vars(ResearchNext)

\* one run of runDraftingPhase
DraftRunInit == DraftInit /\ ResearchIdle

DraftSpec == DraftRunInit /\ [][DraftNext]_vars

\* one buildEvidencePack call of runDraftingPhase, for every evidence set
\* and plan of the model
PackRunInit ==
    /\ ResearchIdle
    /\ sectionCount = 0
    /\ draftSupply = {}
    /\ reviewSupply = {}
    /\ DraftFresh
    /\ PackInit
    /\ GatewayIdle

PackSpec == PackRunInit /\ [][PackNext]_vars

\* one generateSafe invocation, for every sequence of service outcomes
GatewayRunInit ==
    /\ ResearchIdle
    /\ sectionCount = 0
    /\ draftSupply = {}
    /\ reviewSupply = {}
    /\ DraftFresh
    /\ PackIdle
    /\ GatewayInit

GatewaySpec == GatewayRunInit /\ [][GatewayNext]_vars

\* ------------------------------------------------------------------------
\* Properties of runResearchPhase
\* ------------------------------------------------------------------------
RegistryUrls == {sourceRegistry[i].url : i \in 1..Len(sourceRegistry)}

FailedCount(url) == Cardinality({i \in 1..Len(failedUrls) : failedUrls[i].url = url})

SourceBlocks(id) ==
    {i \in 1..Len(contextParts) : contextParts[i].id = id /\ contextParts[i].kind = "source"}

Terminated == pc \in {"returned", "rejected"}

\* C1: within one run the extraction gateway call is issued at most once
\* for any URL, however often the URL is supplied, discovered or drained.
C1_ExtractAtMostOnce == \A u \in AllUrls : extractCalls[u] <= 1

\* a finished run of at least two rounds in which u1 was supplied twice,
\* and s1 was discovered by search vectors both as "s1" and as " s1 ", so
\* that it was handed to harvest by more than one drain pass
C1_Witness ==
    /\ pc = "returned"
    /\ urls = <<"u1", "u1", "u2">>
    /\ extractCalls["u1"] = 1
    /\ extractCalls["s1"] = 1
    /\ " s1 " \in RegistryUrls
    /\ depth >= 1

\* C2 (as claimed): the search-vector executor is invoked at most once per
\* distinct trimmed query string.
C2_VectorAtMostOnce == \A q \in Queries : vectorCalls[q] <= 1

\* C3: the number of extraction calls in flight, and of registry entries
\* in PROCESSING, never exceeds MAX_URL_CONCURRENCY.
C3_ConcurrencyCap ==
    /\ Cardinality(inflight) <= MAX_URL_CONCURRENCY
    /\ Cardinality({u \in RegistryUrls : StatusOf(u) = "PROCESSING"}) <= MAX_URL_CONCURRENCY

\* the cap is reached while a further URL is still waiting for a worker
C3_Witness ==
    /\ Cardinality(inflight) = MAX_URL_CONCURRENCY
    /\ Cardinality({u \in RegistryUrls : StatusOf(u) = "PROCESSING"}) = MAX_URL_CONCURRENCY
    /\ Len(poolItems) > MAX_URL_CONCURRENCY
    /\ \E u \in Range(poolItems) : StatusOf(u) = "QUEUED"

\* C4: every fair run terminates, with at most MAX_RESEARCH_DEPTH
\* gap-analysis calls and at most MAX_RESEARCH_DEPTH + 1 runLoop rounds
\* (depths 0..MAX_RESEARCH_DEPTH).
C4_BoundedTermination ==
    /\ [](gapCalls <= MAX_RESEARCH_DEPTH
          /\ loopRounds <= MAX_RESEARCH_DEPTH + 1
          /\ depth <= MAX_RESEARCH_DEPTH)
    /\ <>Terminated

\* a returned run that used all gap-analysis calls, each of which came
\* back with a new query, and that stopped at the maximum depth
C4_Witness ==
    /\ pc = "returned"
    /\ gapCalls = MAX_RESEARCH_DEPTH
    /\ loopRounds = MAX_RESEARCH_DEPTH + 1
    /\ depth = MAX_RESEARCH_DEPTH

\* C5: the context never holds two citation blocks for one source
\* identifier.
C5_OneBlockPerId ==
    \A i, j \in 1..Len(contextParts) :
        (/\ i # j
         /\ contextParts[i].kind = "source"
         /\ contextParts[j].kind = "source") => contextParts[i].id # contextParts[j].id

\* the same query was executed twice in one batch, both executions came
\* back with text, and the merge has run: the second append was refused
C5_Witness ==
    /\ pc = "harvested"
    /\ \E p, r \in 1..Len(filteredQueries) :
          /\ p < r
          /\ filteredQueries[p] = filteredQueries[r]
          /\ batchResults[p].text # ""
          /\ batchResults[r].text # ""
          /\ Cardinality(SourceBlocks(queryUrl(filteredQueries[p]))) = 1

\* C6 (as claimed): when runResearchPhase returns, every registry entry is
\* COMPLETED or FAILED.
C6_AllTerminalAtReturn ==
    pc = "returned" =>
        \A u \in RegistryUrls : StatusOf(u) \in {"COMPLETED", "FAILED"}

\* C7 (as claimed): the returned sources hold no URL whose registry entry
\* is FAILED, and no URL is both in sources and in failedUrls.
C7_SourcesNotFailed ==
    pc = "returned" =>
        \A u \in Range(result.sources) :
            /\ StatusOf(u) # "FAILED"
            /\ \A i \in 1..Len(result.failedUrls) : result.failedUrls[i].url # u

\* C8: failedUrls holds exactly one entry for each URL whose registry
\* status is FAILED and no entry for any other URL.
C8_FailedExactlyOnce ==
    \A u \in AllUrls : FailedCount(u) = IF StatusOf(u) = "FAILED" THEN 1 ELSE 0

\* an invalid URL was handed to harvest twice, a fetched URL failed, and
\* each has its single entry
C8_Witness ==
    /\ Count(urls, InvalidUrl) = 2
    /\ FailedCount(InvalidUrl) = 1
    /\ StatusOf("u1") = "FAILED"
    /\ FailedCount("u1") = 1
    /\ pc = "returned"

\* ------------------------------------------------------------------------
\* Properties of runDraftingPhase
\* ------------------------------------------------------------------------
\* C9 (as claimed): every section returned by runDraftingPhase carries
\* non-empty content.
C9_ContentNonEmpty ==
    dpc = "returned" => \A i \in 1..Len(results) : results[i].content # ""

\* C10: at most MAX_REVISIONS + 1 draft calls and critique calls per
\* section; a section whose draft calls all returned and whose critiques
\* all said Rejected finishes after exactly MAX_REVISIONS + 1 of each.
C10_BoundedRevision ==
    \A s \in Sections :
        /\ draftCalls[s] <= MAX_REVISIONS + 1
        /\ critiqueCalls[s] <= MAX_REVISIONS + 1
        /\ (/\ secPc[s] = "done"
            /\ sectionResult[s] # DraftingError
            /\ rejections[s] = critiqueCalls[s])
           => (draftCalls[s] = MAX_REVISIONS + 1 /\ critiqueCalls[s] = MAX_REVISIONS + 1)

\* the phase returned a section that was rejected every time
C10_Witness ==
    /\ dpc = "returned"
    /\ \E s \in 1..sectionCount :
          /\ rejections[s] = MAX_REVISIONS + 1
          /\ draftCalls[s] = MAX_REVISIONS + 1
          /\ critiqueCalls[s] = MAX_REVISIONS + 1
          /\ sectionResult[s] = "draft3"

\* C11: a critique call that throws an error other than QUOTA_EXCEEDED ends
\* the section's loop at once: no draft call follows it, the section
\* resolves with the draft it had, not with the error placeholder; when it
\* was the first critique call, exactly one draft call and one critique
\* call were made and the content is that of the first draft.
C11_CritiqueFailOpen ==
    \A s \in Sections :
        reviewOutcome[s] = "throw" =>
            /\ secPc[s] = "done"
            /\ draftCalls[s] = critiqueCalls[s]
            /\ sectionResult[s] = currentDraft[s]
            /\ sectionResult[s] # DraftingError
            /\ (critiqueCalls[s] = 1 =>
                   /\ draftCalls[s] = 1
                   /\ sectionResult[s] = DraftContent(draftOutcome[s], 1))

\* the phase returned a section whose first critique call threw
C11_Witness ==
    /\ dpc = "returned"
    /\ \E s \in 1..sectionCount :
          /\ reviewOutcome[s] = "throw"
          /\ critiqueCalls[s] = 1
          /\ draftCalls[s] = 1
          /\ results[s].content = "draft1"

\* C12: a draft call (initial or revision) that throws QUOTA_EXCEEDED makes
\* runDraftingPhase reject: the section's promise rejects, no placeholder is
\* produced for it, and the phase never returns a section list.
C12_DraftQuotaRejects ==
    \A s \in Sections :
        draftOutcome[s] = "quota" =>
            /\ secPc[s] = "thrown"
            /\ sectionResult[s] = NoContent
            /\ dpc = "rejected"

\* the revision draft of a section of the second batch threw QUOTA_EXCEEDED
\* after the first batch had been pushed to results
C12_Witness ==
    /\ dpc = "rejected"
    /\ Len(results) = BATCH_SIZE
    /\ \E s \in Sections :
          /\ s > BATCH_SIZE
          /\ draftOutcome[s] = "quota"
          /\ draftCalls[s] = 2

\* C13 (as claimed): a critique call that throws QUOTA_EXCEEDED makes
\* runDraftingPhase reject.
C13_CritiqueQuotaRejects ==
    \A s \in Sections : reviewOutcome[s] = "quota" => dpc = "rejected"

\* C15 (as claimed): once a draft call of one section has thrown
\* QUOTA_EXCEEDED, no step issues a further draft or critique call.
C15_NoCallAfterQuota ==
    [][(\E s \in Sections : draftOutcome[s] = "quota")
          => (draftCalls' = draftCalls /\ critiqueCalls' = critiqueCalls)]_vars

\* C16: when runDraftingPhase returns, results has one entry per section
\* plan, in plan order, the i-th entry carrying the title and type of the
\* i-th plan and the content the i-th section resolved with.
C16_ResultsFollowPlans ==
    dpc = "returned" =>
        /\ Len(results) = sectionCount
        /\ \A i \in 1..sectionCount :
              /\ results[i].title = SectionPlan(i).title
              /\ results[i].type = SectionPlan(i).type
              /\ results[i].content = sectionResult[i]

\* a returned run of more than one batch in which some section settled
\* before an earlier section of its batch
C16_Witness ==
    /\ dpc = "returned"
    /\ sectionCount > BATCH_SIZE
    /\ finishedOutOfOrder

\* ------------------------------------------------------------------------
\* Further properties of runResearchPhase
\* ------------------------------------------------------------------------
\* a gateway call of this run has thrown QUOTA_EXCEEDED
QuotaThrown ==
    \/ gapOutcome = "quota"
    \/ \E i \in 1..Len(failedUrls) : failedUrls[i].reason = "QUOTA_EXCEEDED"

\* C14 (as claimed): a run in which a gateway call has thrown
\* QUOTA_EXCEEDED rejects; it does not record a Failed Source or 'no gaps'
\* for the error and return a result.
C14_QuotaRejects == pc = "returned" => ~QuotaThrown

HasBlock(id) == \E i \in 1..Len(contextParts) : contextParts[i].id = id

BlockIndex(id) == CHOOSE i \in 1..Len(contextParts) : contextParts[i].id = id

\* C17 (as claimed): the blocks of two URLs dispatched in one harvest step
\* stand in the context in dispatch order, whichever extraction call
\* completed first.
C17_DiscoveryOrder ==
    \A i, j \in 1..Len(poolItems) :
        (i < j /\ HasBlock(poolItems[i]) /\ HasBlock(poolItems[j]))
            => BlockIndex(poolItems[i]) < BlockIndex(poolItems[j])

IsPrefix(s, t) == Len(s) <= Len(t) /\ SubSeq(t, 1, Len(s)) = s

\* C18: the context is append-only: every step leaves the blocks already
\* emitted unchanged in content and position, so the context before a step
\* is a prefix of the context after it.
C18_ContextAppendOnly == [][IsPrefix(contextParts, contextParts')]_vars

\* the evidence record of the query q1 has taken in the facts of a result
\* of the second batch after its block was emitted, in the first batch,
\* with the text of the first result
C18_Witness ==
    /\ queries = RepeatedQueryList
    /\ HasBlock(queryUrl("q1"))
    /\ contextParts[BlockIndex(queryUrl("q1"))].content = VectorResultA.text
    /\ EvidenceFacts(evidenceStore, queryUrl("q1")) = <<"f1", "f2", "f3">>
    /\ pc = "returned"
    /\ result.context = contextParts

\* C19: a gap-analysis call that throws an error other than QUOTA_EXCEEDED
\* counts as 'no gaps': no further runLoop round and no further
\* gap-analysis call follows, and the run goes on to return what it has
\* gathered.
C19_GapFailOpen ==
    gapOutcome = "throw" =>
        /\ pc \in {"finish", "returned"}
        /\ loopRounds = gapCalls
        /\ (pc = "returned" =>
               /\ result.returned
               /\ result.context = contextParts
               /\ result.sources = gatheredSources)

\* the second gap-analysis call threw after a round of follow-up queries
\* had gathered evidence, and the run returned
C19_Witness ==
    /\ pc = "returned"
    /\ gapOutcome = "throw"
    /\ gapCalls = 2
    /\ depth = 1
    /\ Len(result.context) > 1

\* ------------------------------------------------------------------------
\* Properties of the evidence pack
\* ------------------------------------------------------------------------
\* no block of the evidence set contains a keyword of the plan
NoBlockScores ==
    \A i \in 1..Len(evidenceBlocks), w \in PlanKeywords(sectionPlan) :
        \A token \in Range(Haystack(evidenceBlocks[i])) : ~SubstringOf(w, token)

\* C20: when no block scores above zero and the evidence set is not empty,
\* the pack is the first min(MAX_EVIDENCE_SOURCES, number of blocks) blocks
\* of the evidence set in their order; the pack is empty only when the
\* evidence set is empty.
C20_FallbackToFullSet ==
    packPc = "done" =>
        /\ (evidenceBlocks # <<>> /\ NoBlockScores) =>
               /\ evidence.blocks = SubSeq(evidenceBlocks, 1,
                                           Min(MAX_EVIDENCE_SOURCES, Len(evidenceBlocks)))
               /\ evidence.count = Min(MAX_EVIDENCE_SOURCES, Len(evidenceBlocks))
        /\ (evidence.blocks = <<>> <=> evidenceBlocks = <<>>)

\* more blocks than the cap, a plan with keywords, none of them in any
\* block: the pack is the first MAX_EVIDENCE_SOURCES blocks
C20_Witness ==
    /\ packPc = "done"
    /\ Len(evidenceBlocks) > MAX_EVIDENCE_SOURCES
    /\ PlanKeywords(sectionPlan) # {}
    /\ NoBlockScores
    /\ Len(evidence.blocks) = MAX_EVIDENCE_SOURCES
    /\ evidence.blocks[1] = evidenceBlocks[1]

\* the position of a block in the evidence set (its context order)
ContextPos(block) == CHOOSE i \in 1..Len(evidenceBlocks) : evidenceBlocks[i] = block

PlanScore(block) == Score(block, PlanKeywords(sectionPlan))

\* block a stands before block b in the order of selection: higher score
\* first, equal scores in context order
RanksBefore(a, b) ==
    \/ PlanScore(a) > PlanScore(b)
    \/ PlanScore(a) = PlanScore(b) /\ ContextPos(a) < ContextPos(b)

\* C34: the selection holds at most MAX_EVIDENCE_SOURCES blocks, only
\* blocks with score above zero when such a block exists, in non-increasing
\* score order with ties in context order; every block left out ranks after
\* every selected one; and a second call with the same evidence set and
\* plan returns the same list.
C34_SelectionDeterministic ==
    packPc = "done" =>
        LET sel == evidence.blocks
        IN  /\ Len(sel) <= MAX_EVIDENCE_SOURCES
            /\ Range(sel) \subseteq Range(evidenceBlocks)
            /\ (\E i \in 1..Len(evidenceBlocks) : PlanScore(evidenceBlocks[i]) > 0)
                  => \A k \in 1..Len(sel) : PlanScore(sel[k]) > 0
            /\ \A k, l \in 1..Len(sel) : k < l => RanksBefore(sel[k], sel[l])
            /\ \A i \in 1..Len(evidenceBlocks) :
                  (evidenceBlocks[i] \notin Range(sel) /\ PlanScore(evidenceBlocks[i]) > 0)
                      => /\ Len(sel) = MAX_EVIDENCE_SOURCES
                         /\ \A k \in 1..Len(sel) : RanksBefore(sel[k], evidenceBlocks[i])
            /\ selectEvidenceBlocks(evidenceBlocks, sectionPlan) = sel

\* a selection that leaves out the blocks with score zero and holds blocks
\* of two different scores, the higher first, with a tie in each score
C34_Witness ==
    /\ packPc = "done"
    /\ Len(evidence.blocks) < Len(evidenceBlocks)
    /\ Len(evidence.blocks) >= 4
    /\ PlanScore(evidence.blocks[1]) = 2
    /\ PlanScore(evidence.blocks[2]) = 2
    /\ PlanScore(evidence.blocks[Len(evidence.blocks)]) = 1
    /\ PlanScore(evidence.blocks[Len(evidence.blocks) - 1]) = 1
    /\ \E k \in 2..Len(evidence.blocks) :
          ContextPos(evidence.blocks[1]) > ContextPos(evidence.blocks[k])

\* ------------------------------------------------------------------------
\* Further properties of runDraftingPhase
\* ------------------------------------------------------------------------
\* the content of the reply to the n-th draft call of a section, by the
\* way the call settled
ReplyContent(outcome, n) ==
    CASE outcome = "ok"         -> "draft" \o ToString(n)
      [] outcome = "empty"      -> ""
      [] outcome = "unparsable" -> "Data insufficient."
      [] OTHER                  -> "<no reply>"

\* C21: a section whose loop ended normally (Approved, revision bound
\* exhausted, critique failure) resolved with the content of the reply to
\* its most recent draft call.
C21_LastDraftReturned ==
    \A s \in Sections :
        (secPc[s] = "done" /\ draftOutcome[s] \in {"ok", "empty", "unparsable"})
            => sectionResult[s] = ReplyContent(draftOutcome[s], draftCalls[s])

\* the phase returned three sections that ended, after at least one
\* revision each, on an approval, on the revision bound and on a critique
\* failure
C21_Witness ==
    /\ dpc = "returned"
    /\ \E a, b, c \in 1..sectionCount :
          /\ reviewOutcome[a] = "Approved" /\ draftCalls[a] = 2
          /\ results[a].content = "draft2"
          /\ reviewOutcome[b] = "Rejected" /\ draftCalls[b] = MAX_REVISIONS + 1
          /\ results[b].content = "draft3"
          /\ reviewOutcome[c] = "throw" /\ draftCalls[c] = 2
          /\ results[c].content = "draft2"

\* C30: a section whose critiques said Rejected k times and then Approved
\* has made exactly k + 1 draft calls and k + 1 critique calls, is finished
\* (no call follows the approval), and resolved with the content of its
\* (k + 1)-th draft.
C30_ApprovedAfterRejections ==
    \A s \in Sections :
        (reviewOutcome[s] = "Approved" /\ rejections[s] = critiqueCalls[s] - 1)
            => /\ secPc[s] = "done"
               /\ rejections[s] <= MAX_REVISIONS
               /\ draftCalls[s] = rejections[s] + 1
               /\ critiqueCalls[s] = rejections[s] + 1
               /\ sectionResult[s] = ReplyContent(draftOutcome[s], rejections[s] + 1)

\* the phase returned a section approved at once and a section approved
\* after MAX_REVISIONS rejections
C30_Witness ==
    /\ dpc = "returned"
    /\ \E a, b \in 1..sectionCount :
          /\ reviewOutcome[a] = "Approved" /\ rejections[a] = 0
          /\ draftCalls[a] = 1 /\ critiqueCalls[a] = 1 /\ results[a].content = "draft1"
          /\ reviewOutcome[b] = "Approved" /\ rejections[b] = MAX_REVISIONS
          /\ draftCalls[b] = 3 /\ critiqueCalls[b] = 3 /\ results[b].content = "draft3"

\* ------------------------------------------------------------------------
\* Further properties of runResearchPhase
\* ------------------------------------------------------------------------
TerminalStatuses == {"COMPLETED", "FAILED"}

C23_FullPath ==
    \A u \in AllUrls :
        StatusOf(u) \in TerminalStatuses
            => statusLog[u] = <<"QUEUED", "PROCESSING", StatusOf(u)>>

DirectiveBlocks == {i \in 1..Len(contextParts) : contextParts[i].kind = "directive"}

\* C24: the context holds at most one citation format directive block, and
\* when it holds a real Citation Block the directive is its first element
\* and every other element is a real block.
C24_DirectiveOnceAndFirst ==
    /\ Cardinality(DirectiveBlocks) <= 1
    /\ (\E i \in 1..Len(contextParts) : contextParts[i].kind = "source")
          => DirectiveBlocks = {1}

\* a run of two rounds returned a context of the directive and at least
\* three real blocks
C24_Witness ==
    /\ pc = "returned"
    /\ loopRounds >= 2
    /\ Len(result.context) >= 4
    /\ result.context[1].kind = "directive"
    /\ \A i \in 2..Len(result.context) : result.context[i].kind = "source"

AllFetchesSucceeded == \A u \in AllUrls : fetchOutcome[u] \in {"none", "ok"}

ValidUrls(set) == {u \in set : u # "" /\ isValidSourceUrl(u)}

CallerUrls == {Trim(urls[i]) : i \in 1..Len(urls)}

\* C25 (as claimed): when every extraction call succeeded, the returned
\* sources hold each URL once, and their URL set is the set of valid caller
\* URLs together with the valid URLs the executed search vectors returned
\* as sources.
C25_SourcesAreValidInputs ==
    (pc = "returned" /\ AllFetchesSucceeded)
        => /\ \A u \in AllUrls : Count(result.sources, u) <= 1
           /\ Range(result.sources) = ValidUrls(CallerUrls) \cup ValidUrls(discovered)

\* C26: a source discovered by a search vector is not fetched in the
\* harvest call that discovered it: extraction calls are issued only in
\* the URL stage of a harvest call, which precedes its query stage; the
\* drain call executes no query; and when the gap-analysis call is issued
\* no extraction is pending and every valid discovered source is terminal.
C26_DiscoveredFetchedLater ==
    /\ [](pc = "gap" => /\ workers = 0 /\ inflight = {} /\ delaying = {}
                        /\ \A u \in AllUrls : StatusOf(u) # "PROCESSING"
                        /\ \A u \in ValidUrls(discovered) :
                               StatusOf(Trim(u)) \in TerminalStatuses)
    /\ [][/\ extractCalls' # extractCalls => pc \in {"harvest", "pool"}
          /\ discovered' # discovered => extractCalls' = extractCalls /\ workers = 0
          /\ (pass = "drain" /\ pass' = "drain") => vectorCalls' = vectorCalls]_vars

\* the gap-analysis call of a round is pending after the drain call fetched
\* s1, which a search vector of the round's first harvest had discovered
C26_Witness ==
    /\ pc = "gap"
    /\ pass = "drain"
    /\ "s1" \in discovered
    /\ statusLog["s1"] = <<"QUEUED", "PROCESSING", "COMPLETED">>
    /\ extractCalls["s1"] = 1

FailedReasons(url) ==
    {failedUrls[i].reason : i \in {j \in 1..Len(failedUrls) : failedUrls[j].url = url}}

C28_StopsWithoutNewWork ==
    [][/\ (pc = "gap" /\ gapOutcome' = "queries" /\ gapFresh' = {}) => pc' = "finish"
       /\ pc \in {"finish", "returned"}
             => /\ extractCalls' = extractCalls
                /\ vectorCalls' = vectorCalls
                /\ gapCalls' = gapCalls
                /\ loopRounds' = loopRounds]_vars

\* a run returned below the maximum depth after its second gap-analysis
\* reply held no new work
C28_Witness ==
    /\ pc = "returned"
    /\ gapOutcome = "queries"
    /\ gapFresh = {}
    /\ depth = 1
    /\ depth < MAX_RESEARCH_DEPTH
    /\ gapCalls = 2
    /\ loopRounds = 2

\* ------------------------------------------------------------------------
\* upsertEvidence on its own: sequences of upserts on a store
\* ------------------------------------------------------------------------
\* the fact list "f<a>", ..., "f<b>"
Facts(a, b) == [i \in 1..(b - a + 1) |-> "f" \o ToString(a + i - 1)]

\* record.facts of an upsert: its callers pass at most MAX_FACTS_PER_SOURCE
\* facts (lines 1638 and 1907), possibly with repetitions
UpsertFacts ==
    {<<>>, Facts(1, 6), Facts(4, 9), Facts(7, 12), Facts(1, MAX_FACTS_PER_SOURCE),
     <<"f2", "f1", "f2">>}

UpsertUrls == {"u1", "u2", InvalidUrl}

\* one call upsertEvidence({url, facts}) (lines 1781-1791)
UpsertEvidence(url, facts) ==
    /\ Len(upsertLog) < MaxUpserts
    /\ SetStore(upsertEvidence(Store, url, facts))
    /\ upsertLog' = Append(upsertLog, [url |-> url, facts |-> facts])
    /\ UNCHANGED <<draftVars, urls, queries, gapSupply, fetchSupply, gapHistory, discovered,
                   fetchOutcome, pc, depth, pass, argUrls, argQueries, visitedQueries,
                   poolVars, queryVars, extractCalls, vectorCalls, gapCalls, loopRounds,
                   result>>

EvidenceNext == \E url \in UpsertUrls, facts \in UpsertFacts : UpsertEvidence(url, facts)

EvidenceRunInit == ResearchIdle /\ DraftIdle

EvidenceSpec == EvidenceRunInit /\ [][EvidenceNext]_vars

\* all facts passed for url by the upserts of a log, in call order
RECURSIVE FactsPassed(_, _)
FactsPassed(log, url) ==
    IF log = <<>> THEN <<>>
    ELSE IF Head(log).url = url
    THEN Head(log).facts \o FactsPassed(Tail(log), url)
    ELSE FactsPassed(Tail(log), url)

\* the first occurrences of the elements of s, in order
FirstSeen(s) ==
    LET IsFirst(i) == \A j \in 1..(i - 1) : s[j] # s[i]
        idx == SelectSeq([i \in 1..Len(s) |-> i], IsFirst)
    IN  [k \in 1..Len(idx) |-> s[idx[k]]]

\* C29: after any sequence of upserts, the record of a valid identifier
\* exists once an upsert named it, and its facts are the facts passed for
\* it so far, without duplicates, in first-seen order, cut to the first
\* MAX_FACTS_PER_SOURCE.
C29_UpsertMergesFacts ==
    \A url \in ValidUrls(UpsertUrls) :
        LET passed == FirstSeen(FactsPassed(upsertLog, url))
            stored == EvidenceFacts(evidenceStore, url)
        IN  /\ (\E i \in 1..Len(upsertLog) : upsertLog[i].url = url)
                  <=> EvidenceHas(evidenceStore, url)
            /\ Len(stored) <= MAX_FACTS_PER_SOURCE
            /\ \A i, j \in 1..Len(stored) : stored[i] = stored[j] => i = j
            /\ stored = Slice(passed, MAX_FACTS_PER_SOURCE)

\* three upserts on u1 passed twelve distinct facts; the record holds the
\* first ten
C29_Witness ==
    /\ upsertLog = <<[url |-> "u1", facts |-> Facts(1, 6)],
                     [url |-> "u1", facts |-> Facts(4, 9)],
                     [url |-> "u1", facts |-> Facts(7, 12)]>>
    /\ Len(evidenceStore) = 1
    /\ EvidenceFacts(evidenceStore, "u1") = Facts(1, MAX_FACTS_PER_SOURCE)

\* ------------------------------------------------------------------------
\* Properties of the length guide
\* ------------------------------------------------------------------------
\* the lower targets for 0, 1, ..., 10 selected evidence blocks
TextTargets == <<3, 3, 4, 6, 8, 10, 10, 10, 10, 10, 10>>

ListTargets == <<6, 6, 6, 9, 12, 15, 18, 18, 18, 18, 18>>

\* C40: the lower target of the length guide is min(10, max(3, 2*count))
\* paragraphs for a text section and min(18, max(6, 3*count)) bullets for
\* a list section; it lies in [3, 10] resp. [6, 18] and does not decrease
\* when the count grows.
C40_LengthGuideBounded ==
    /\ packPc = "done"
          => /\ evidence.count \in 0..MAX_EVIDENCE_SOURCES
             /\ lengthGuide.low = IF sectionPlan.type = "list"
                                  THEN ListTargets[evidence.count + 1]
                                  ELSE TextTargets[evidence.count + 1]
             /\ IF sectionPlan.type = "list"
                THEN lengthGuide.low \in 6..18 /\ lengthGuide.unit = "bullets"
                ELSE lengthGuide.low \in 3..10 /\ lengthGuide.unit = "paragraphs"
    /\ \A c \in 0..(MAX_EVIDENCE_SOURCES - 1), ty \in {"text", "list"} :
          buildLengthGuide(c, ty).low <= buildLengthGuide(c + 1, ty).low

\* a list section with ten selected blocks got the guide 18-20 bullets
C40_Witness ==
    /\ packPc = "done"
    /\ sectionPlan.type = "list"
    /\ evidence.count = MAX_EVIDENCE_SOURCES
    /\ lengthGuide = [low |-> 18, high |-> 20, unit |-> "bullets"]

\* ------------------------------------------------------------------------
\* Properties of the revision prompt, of failures and of the batches of
\* runDraftingPhase
\* ------------------------------------------------------------------------
\* C31 (as claimed): every draft call after the first of a section is a
\* revision call whose prompt carries the previous draft's content and the
\* feedback of the preceding critique, whatever critique reply led to it.
C31_RevisionCarriesDraftAndFeedback ==
    \A s \in Sections :
        (secPc[s] = "draft" /\ draftCalls[s] > 1)
            => /\ draftPrompt[s].revision
               /\ draftPrompt[s].draft = currentDraft[s]
               /\ draftPrompt[s].feedback = ReviewFeedback(reviewOutcome[s])

\* C32 (as claimed): a draft call after the first of a section is pending
\* only after a critique reply whose verdict is Rejected.
C32_RevisionOnlyAfterRejected ==
    \A s \in Sections :
        (secPc[s] = "draft" /\ draftCalls[s] > 1)
            => reviewOutcome[s] \in {"Rejected", "RejectedBlank"}

InFlight == {s \in Sections : secPc[s] \in {"draft", "review"}}

BatchIndex(s) == (s - 1) \div BATCH_SIZE

\* C35: at most BATCH_SIZE sections have a draft or critique call in
\* flight, and a section of a later batch has issued a gateway call only
\* when every section of the earlier batches has finished its loop.
C35_BatchesInSequence ==
    /\ Cardinality(InFlight) <= BATCH_SIZE
    /\ \A s, t \in Sections :
          (BatchIndex(s) < BatchIndex(t) /\ draftCalls[t] > 0) => secPc[s] = "done"

\* the second batch is running after a first batch of three sections, one
\* of which went through a revision
C35_Witness ==
    /\ dpc = "batch"
    /\ batchFirst = BATCH_SIZE + 1
    /\ secPc[4] = "review"
    /\ \A s \in 1..BATCH_SIZE : secPc[s] = "done"
    /\ draftCalls[1] = 2
    /\ Len(results) = BATCH_SIZE


\* ------------------------------------------------------------------------
\* Properties of generateSafe
\* ------------------------------------------------------------------------
RetryDelays == <<2000, 4000, 8000>>

\* a rate-limit error without the markers 'limit: 0', 'not found', '404'
Transient(msg) == isRateLimit(msg) /\ ~IsHardLimit(msg)

\* C37: one generateSafe invocation calls the service at most 4 times; the
\* k-th error, if it is a rate-limit error without a hard-limit marker and
\* k <= 3, is followed by a delay of 2 s, 4 s, 8 s (by k) and another call;
\* every other error ends the invocation at once with no further delay or
\* call: as QUOTA_EXCEEDED if it is a rate-limit error (the fourth in a row,
\* or one marked 'limit: 0', 'not found' or '404'), as the error otherwise.
C37_GatewayRetryPolicy ==
    /\ serviceCalls <= 4
    /\ Len(serviceErrors) <= serviceCalls
    /\ Len(backoffDelays) <= 3
    /\ \A k \in 1..Len(backoffDelays) : backoffDelays[k] = RetryDelays[k]
    /\ \A k \in 1..Len(serviceErrors) :
          LET msg == serviceErrors[k]
          IN  IF k <= 3 /\ Transient(msg)
              THEN /\ Len(backoffDelays) >= k
                   /\ k = Len(serviceErrors) => surfaced \in {"none", "response"}
                   /\ gsPc \in {"returned", "thrown"} => serviceCalls > k
              ELSE /\ k = Len(serviceErrors)
                   /\ gsPc = "thrown"
                   /\ serviceCalls = k
                   /\ Len(backoffDelays) = k - 1
                   /\ surfaced = IF isRateLimit(msg) THEN "QUOTA_EXCEEDED" ELSE "error"
    /\ surfaced = "QUOTA_EXCEEDED" =>
          /\ serviceErrors # <<>>
          /\ isRateLimit(serviceErrors[Len(serviceErrors)])

\* four rate-limit failures in a row: three delays, then QUOTA_EXCEEDED
C37_Witness ==
    /\ gsPc = "thrown"
    /\ surfaced = "QUOTA_EXCEEDED"
    /\ serviceCalls = 4
    /\ backoffDelays = <<2000, 4000, 8000>>
    /\ \A k \in 1..4 : Transient(serviceErrors[k])


\* ------------------------------------------------------------------------
\* Properties of the query stage of harvest
\* ------------------------------------------------------------------------
BlocksIn(parts, id) ==
    {i \in 1..Len(parts) : parts[i].id = id /\ parts[i].kind = "source"}

UrlsIn(reg) == {reg[i].url : i \in 1..Len(reg)}

\* the positions of filteredQueries whose execution belongs to the batch
\* that starts at batchStart
CurrentBatch == {p \in 1..Len(filteredQueries) : batchStart <= p /\ p < batchStart + 3}

\* the step in which Promise.all of a query batch resolves and the results
\* are merged
MergeStep == pc = "vectors" /\ pc' # "vectors"

\* C36: in the query stage every query of the step is visited before any
\* is executed; at most 3 executions are in flight; executions start only
\* when none is in flight, for the next (at most 3) consecutive positions;
\* and the next batch is reached only after every execution of the
\* current one has returned and its text and sources have been merged.
C36_QueryBatches ==
    /\ [](/\ Cardinality(pendingVec) <= 3
          /\ pendingVec \subseteq CurrentBatch
          /\ pc \in {"batch", "vectors"} =>
                /\ Range(filteredQueries) \subseteq visitedQueries
                /\ batchStart % 3 = 1)
    /\ [][/\ vectorCalls' # vectorCalls =>
                /\ pc = "batch" /\ pendingVec = {}
                /\ pendingVec' = CurrentBatch
                /\ \A q \in Queries :
                      vectorCalls'[q] - vectorCalls[q] =
                          Cardinality({p \in CurrentBatch : filteredQueries[p] = q})
          /\ MergeStep =>
                /\ pendingVec = {}
                /\ batchStart' = batchStart + 3
                /\ \A p \in CurrentBatch :
                      /\ batchResults[p] # NoVector
                      /\ batchResults[p].text # "" =>
                             BlocksIn(contextParts', queryUrl(filteredQueries[p])) # {}
                      /\ \A u \in Range(batchResults[p].sources) :
                             u # "" /\ isValidSourceUrl(u) => u \in UrlsIn(sourceRegistry')]_vars

\* four queries: the execution of the fourth is in flight alone, after the
\* three of the first batch returned and the first one's block was merged
C36_Witness ==
    /\ pc = "vectors"
    /\ Len(filteredQueries) = 4
    /\ batchStart = 4
    /\ pendingVec = {4}
    /\ SourceBlocks(queryUrl(filteredQueries[1])) # {}

\* ------------------------------------------------------------------------
\* Properties of the URL worker
\* ------------------------------------------------------------------------
\* C38: a URL has a Citation Block exactly if its registry status is
\* COMPLETED; a COMPLETED URL has exactly one block and an Evidence Record;
\* no FAILED, QUEUED or PROCESSING URL has a block. Stated over the blocks
\* of the context (each belongs to a COMPLETED URL and is its only block)
\* and over the entries of the registry (a URL has one status; COMPLETED
\* has a block and a record, every other status has no block).
C38_BlockIffCompleted ==
    [](/\ \A i \in 1..Len(contextParts) :
             (contextParts[i].kind = "source" /\ contextParts[i].id \in AllUrls) =>
                 /\ StatusOf(contextParts[i].id) = "COMPLETED"
                 /\ \A j \in 1..Len(contextParts) :
                       (contextParts[j].kind = "source" /\ contextParts[j].id = contextParts[i].id)
                           => j = i
       /\ \A i \in 1..Len(sourceRegistry) :
             /\ sourceRegistry[i].url \in AllUrls
             /\ StatusOf(sourceRegistry[i].url) = sourceRegistry[i].status
             /\ IF sourceRegistry[i].status = "COMPLETED"
                THEN /\ SourceBlocks(sourceRegistry[i].url) # {}
                     /\ EvidenceHas(evidenceStore, sourceRegistry[i].url)
                ELSE /\ sourceRegistry[i].status \in {"FAILED", "QUEUED", "PROCESSING"}
                     /\ SourceBlocks(sourceRegistry[i].url) = {})

\* a finished run in which u1 was extracted and u2 failed
C38_Witness ==
    /\ pc = "returned"
    /\ StatusOf("u1") = "COMPLETED"
    /\ Cardinality(SourceBlocks("u1")) = 1
    /\ StatusOf("u2") = "FAILED"
    /\ SourceBlocks("u2") = {}

\* ------------------------------------------------------------------------
\* Properties of a query without text
\* ------------------------------------------------------------------------
\* the positions of the current batch whose execution resolved without text
\* (executeSearchVector failed, or its reply had no summary and no facts)
EmptyPositions == {p \in CurrentBatch : batchResults[p].text = ""}

\* the query of position p has text in no execution of the current batch
NoTextInBatch(p) ==
    \A r \in CurrentBatch : filteredQueries[r] = filteredQueries[p] => r \in EmptyPositions

\* the valid sources the executions of the current batch returned
BatchSources ==
    {u \in UNION {Range(batchResults[p].sources) : p \in CurrentBatch} :
        u # "" /\ isValidSourceUrl(u)}

\* a query executed once stays visited, and no later harvest call takes a
\* visited query into its list
VisitedForGood ==
    /\ [](\A q \in Queries : vectorCalls[q] > 0 => q \in visitedQueries)
    /\ [][/\ visitedQueries \subseteq visitedQueries'
          /\ (pc = "pool" /\ pc' # "pool") =>
                Range(filteredQueries') \cap visitedQueries = {}
          /\ \A q \in Queries :
                vectorCalls'[q] > vectorCalls[q] => q \in Range(filteredQueries)]_vars

\* C39 (as claimed): a query whose execution failed or returned no text
\* stays visited and is never taken into a later query list, gets no
\* Citation Block from that execution, and none of the sources returned
\* with it is added to the registry.
C39_EmptyResultInert ==
    /\ VisitedForGood
    /\ [][MergeStep =>
            \A p \in EmptyPositions :
                /\ filteredQueries[p] \in visitedQueries'
                /\ NoTextInBatch(p) =>
                      BlocksIn(contextParts', queryUrl(filteredQueries[p])) =
                          BlocksIn(contextParts, queryUrl(filteredQueries[p]))
                /\ \A u \in Range(batchResults[p].sources) :
                      u \notin UrlsIn(sourceRegistry) => u \notin UrlsIn(sourceRegistry')]_vars

\* C39 (amended): such a query stays visited and is never taken into a
\* later query list, and gets no Citation Block from that execution; the
\* merge adds to the registry exactly the valid sources the executions of
\* the batch returned, with or without text, so that a failed execution,
\* which returns no source, adds none.
C39_EmptyResultStillVisited ==
    /\ VisitedForGood
    /\ [][MergeStep =>
            /\ \A p \in EmptyPositions :
                  /\ filteredQueries[p] \in visitedQueries'
                  /\ NoTextInBatch(p) =>
                        BlocksIn(contextParts', queryUrl(filteredQueries[p])) =
                            BlocksIn(contextParts, queryUrl(filteredQueries[p]))
            /\ UrlsIn(sourceRegistry') = UrlsIn(sourceRegistry) \cup BatchSources]_vars

\* a finished run of two rounds: the execution of q1 returned no text but
\* the source " s1 ", which was registered; q1 got no block; the gap
\* analysis then returned " q1 " again together with q3, and only q3 was
\* executed
C39_Witness ==
    /\ pc = "returned"
    /\ depth >= 1
    /\ queries = <<" q1 ">>
    /\ vectorCalls = [q \in Queries |-> IF q = "q2" THEN 0 ELSE 1]
    /\ SourceBlocks(queryUrl("q1")) = {}
    /\ " s1 " \in RegistryUrls
    /\ "q1" \in visitedQueries

====
